---- MODULE Spec2Model ----
(***************************************************************************)
(* Model of the SoftRF traffic awareness core: the tracking table          *)
(* (ParseData, Traffic_Update, Traffic_loop in TrafficHelper.cpp), the     *)
(* own-address regeneration (generate_random_id) and the NMEA export.      *)
(*                                                                         *)
(* Geometry is one-dimensional: a latitude is counted in units of          *)
(* 1/111300 degree (one metre of northing) and all longitudes are equal,   *)
(* so that Traffic_Update's 111300*sqrt(x*x+y*y) is |fop.lat - own.lat|.   *)
(* Vertical speeds are multiples of 20 fpm so that vsr*0.05 is an integer. *)
(***************************************************************************)
EXTENDS Integers, Sequences, FiniteSets, TLC

\* ---------------------------------------------------------------- bounds
MAX_TRACKING_OBJECTS == 2
MaxTicks == 3
MaxJumps == 1
StartTime == 1000

\* ------------------------------------------------------------- constants
ENTRY_EXPIRATION_TIME == 30
TRAFFIC_VECTOR_UPDATE_INTERVAL == 2
TRAFFIC_UPDATE_INTERVAL == 2

ALARM_LEVEL_NONE == 0
ALARM_LEVEL_CLOSE == 1
ALARM_LEVEL_LOW == 2
ALARM_LEVEL_IMPORTANT == 3
ALARM_LEVEL_URGENT == 4

ALARM_ZONE_CLOSE == 1000
ALARM_ZONE_LOW == 700
ALARM_ZONE_IMPORTANT == 400
ALARM_ZONE_URGENT == 200

VERTICAL_SEPARATION == 300
VERTICAL_SLOPE == 5
VERTICAL_SLACK == 60

TRAFFIC_ALARM_NONE == 0
TRAFFIC_ALARM_DISTANCE == 1
TRAFFIC_ALARM_VECTOR == 2
TRAFFIC_ALARM_LEGACY == 3

ADDR_TYPE_RANDOM == 0
ADDR_TYPE_ICAO == 1
ADDR_TYPE_FLARM == 2
ADDR_TYPE_ANONYMOUS == 3

TRAFFIC_ALERT_SOUND == 1

MAX_NMEA_OBJECTS == 12
EXPORT_EXPIRATION_TIME == 5
ALARM_ZONE_NONE == 10000

\* the limits of the vector alarm: degrees, metres per second, seconds
ALARM_VECTOR_ANGLE == 10
ALARM_VECTOR_SPEED == 2
ALARM_TIME_URGENT == 9
ALARM_TIME_IMPORTANT == 13
ALARM_TIME_LOW == 19
ALARM_TIME_CLOSE == 30
VERTICAL_VISIBILITY_RANGE == 500
STEALTH_DISTANCE == 2000
STEALTH_VERTICAL == 300

\* ---------------------------------------------------------------- helpers
Abs(x) == IF x < 0 THEN -x ELSE x

Slots == 0 .. (MAX_TRACKING_OBJECTS - 1)

LowestIndex(S) == CHOOSE i \in S : \A j \in S : i <= j

MaxOf(S) == CHOOSE x \in S : \A y \in S : y <= x

MinOf(S) == CHOOSE x \in S : \A y \in S : x <= y

VARIABLES
  now,                      \* now(): UTC seconds
  ticks,                    \* number of clock advances so far (bounds the run)
  ThisAircraft,             \* the own aircraft record
  settings,                 \* settings->ignore_id, id_method, alarm
  Container,                \* Container[MAX_TRACKING_OBJECTS]
  UpdateTrafficTimeMarker,  \* time of the last sweep
  notified,                 \* level given to Sound_Notify by the step just taken, 0 if none
  outcome,                  \* which return of the last operation was taken
  hist,                     \* history of the sounds fired for each slot's track
  scen,                     \* progress of the alarm script of the hysteresis scenario
  sentences,                \* what the last NMEA_Export gave to NMEA_Outs; beatcount
  air                       \* the Legacy packet on the air and what the decoder made of it

vars == <<now, ticks, ThisAircraft, settings, Container,
          UpdateTrafficTimeMarker, notified, outcome, hist, scen, sentences, air>>

\* EmptyFO: the zero-initialised ufo_t
EmptyFO ==
  [addr |-> 0, timestamp |-> 0, latitude |-> 0, altitude |-> 0, vs |-> 0,
   distance |-> 0, bearing |-> 0, alt_diff |-> 0,
   alarm_level |-> 0, alert_level |-> 0, alert |-> 0,
   adj_alt_diff |-> 0, adj_distance |-> 0, stealth |-> FALSE, next |-> 0,
   course |-> 0, speed |-> 0,
   gnsstime_ms |-> 0, prevcourse |-> 0, prevtime_ms |-> 0, turnrate |-> 0]


\* atan2_approx(y, x) for x = 0: compass degrees from the own aircraft to fop
atan2_approx_north(y) == IF y < 0 THEN 180 ELSE 0

\* ------------------------------------------------------------ alarm engine
Alarm_None(this_aircraft, fop) == ALARM_LEVEL_NONE

\* mutant: the slack is added to the difference
Adj_alt_diff_SlackAdded(this_aircraft, fop) ==
  LET alt_diff0  == fop.alt_diff
      vsr0       == fop.vs - this_aircraft.vs
      vsr        == IF Abs(vsr0) > 1000 THEN 0 ELSE vsr0
      alt_change == vsr \div 20
      adjusted   == IF (alt_diff0 > 0 /\ alt_change < 0) \/ (alt_diff0 < 0 /\ alt_change > 0)
                    THEN alt_diff0 + alt_change ELSE alt_diff0
      crossed    == \/ (alt_diff0 > 0 /\ alt_change < 0 /\ adjusted < 0)
                    \/ (alt_diff0 < 0 /\ alt_change > 0 /\ adjusted > 0)
  IN  IF crossed THEN 0
      ELSE IF adjusted > 0
           THEN (IF adjusted < VERTICAL_SLACK THEN 0 ELSE adjusted + VERTICAL_SLACK)
           ELSE (IF -adjusted < VERTICAL_SLACK THEN 0 ELSE adjusted - VERTICAL_SLACK)

\* mutant: an implausible relative vertical speed is clamped to 1000
Adj_alt_diff_Clamped(this_aircraft, fop) ==
  LET alt_diff0  == fop.alt_diff
      vsr0       == fop.vs - this_aircraft.vs
      vsr        == IF vsr0 > 1000 THEN 1000 ELSE IF vsr0 < -1000 THEN -1000 ELSE vsr0
      alt_change == vsr \div 20
      adjusted   == IF (alt_diff0 > 0 /\ alt_change < 0) \/ (alt_diff0 < 0 /\ alt_change > 0)
                    THEN alt_diff0 + alt_change ELSE alt_diff0
      crossed    == \/ (alt_diff0 > 0 /\ alt_change < 0 /\ adjusted < 0)
                    \/ (alt_diff0 < 0 /\ alt_change > 0 /\ adjusted > 0)
  IN  IF crossed THEN 0
      ELSE IF adjusted > 0
           THEN (IF adjusted < VERTICAL_SLACK THEN 0 ELSE adjusted - VERTICAL_SLACK)
           ELSE (IF -adjusted < VERTICAL_SLACK THEN 0 ELSE adjusted + VERTICAL_SLACK)

\* Adj_alt_diff: relative altitude adjusted for relative vertical speed
Adj_alt_diff(this_aircraft, fop) ==
  LET alt_diff0  == fop.alt_diff
      vsr0       == fop.vs - this_aircraft.vs
      vsr        == IF Abs(vsr0) > 1000 THEN 0 ELSE vsr0
      alt_change == vsr \div 20
      adjusted   == IF (alt_diff0 > 0 /\ alt_change < 0) \/ (alt_diff0 < 0 /\ alt_change > 0)
                    THEN alt_diff0 + alt_change ELSE alt_diff0
      crossed    == \/ (alt_diff0 > 0 /\ alt_change < 0 /\ adjusted < 0)
                    \/ (alt_diff0 < 0 /\ alt_change > 0 /\ adjusted > 0)
  IN  IF crossed THEN 0
      ELSE IF adjusted > 0
           THEN (IF adjusted < VERTICAL_SLACK THEN 0 ELSE adjusted - VERTICAL_SLACK)
           ELSE (IF -adjusted < VERTICAL_SLACK THEN 0 ELSE adjusted + VERTICAL_SLACK)

\* mutant: the zone limits are inclusive
Alarm_Distance_Inclusive(this_aircraft, fop) ==
  IF this_aircraft.prevtime_ms = 0 THEN ALARM_LEVEL_NONE
  ELSE IF fop.distance > 2 * ALARM_ZONE_CLOSE \/ Abs(fop.alt_diff) > 2 * VERTICAL_SEPARATION
  THEN ALARM_LEVEL_NONE
  ELSE LET abs_alt_diff == Abs(Adj_alt_diff(this_aircraft, fop))
           distance     == VERTICAL_SLOPE * abs_alt_diff + fop.distance
       IN  IF abs_alt_diff < VERTICAL_SEPARATION
           THEN IF distance <= ALARM_ZONE_URGENT THEN ALARM_LEVEL_URGENT
                ELSE IF distance <= ALARM_ZONE_IMPORTANT THEN ALARM_LEVEL_IMPORTANT
                ELSE IF distance <= ALARM_ZONE_LOW THEN ALARM_LEVEL_LOW
                ELSE IF distance <= ALARM_ZONE_CLOSE THEN ALARM_LEVEL_CLOSE
                ELSE ALARM_LEVEL_NONE
           ELSE ALARM_LEVEL_NONE

\* Alarm_Distance: the alarm level from the distance and the altitude difference
Alarm_Distance(this_aircraft, fop) ==
  IF this_aircraft.prevtime_ms = 0 THEN ALARM_LEVEL_NONE
  ELSE IF fop.distance > 2 * ALARM_ZONE_CLOSE \/ Abs(fop.alt_diff) > 2 * VERTICAL_SEPARATION
  THEN ALARM_LEVEL_NONE
  ELSE LET abs_alt_diff == Abs(Adj_alt_diff(this_aircraft, fop))
           distance     == VERTICAL_SLOPE * abs_alt_diff + fop.distance
       IN  IF abs_alt_diff < VERTICAL_SEPARATION
           THEN IF distance < ALARM_ZONE_URGENT THEN ALARM_LEVEL_URGENT
                ELSE IF distance < ALARM_ZONE_IMPORTANT THEN ALARM_LEVEL_IMPORTANT
                ELSE IF distance < ALARM_ZONE_LOW THEN ALARM_LEVEL_LOW
                ELSE IF distance < ALARM_ZONE_CLOSE THEN ALARM_LEVEL_CLOSE
                ELSE ALARM_LEVEL_NONE
           ELSE ALARM_LEVEL_NONE

Alarm_Legacy(this_aircraft, fop) == ALARM_LEVEL_NONE

\* cos_approx and sin_approx of a course along one of the four cardinal
\* directions, in compass degrees
cos_approx_cardinal(course) == IF course = 0 THEN 1 ELSE IF course = 180 THEN -1 ELSE 0

sin_approx_cardinal(course) == IF course = 90 THEN 1 ELSE IF course = 270 THEN -1 ELSE 0

\* speeds are in knots; a knot is 0.514 m/s, so a speed of v knots is above
\* s m/s iff v * 514 > s * 1000
KnotsAbove(v, s) == v * 514 > s * 1000

\* t < limit, with t = (distance + VERTICAL_SLOPE * abs_alt_diff) / V_rel_magnitude
\* and V_rel_magnitude = V_rel_knots * _GPS_MPS_PER_KNOT
t_before(distance, abs_alt_diff, V_rel_knots, limit) ==
  (distance + VERTICAL_SLOPE * abs_alt_diff) * 1000 < limit * 514 * V_rel_knots

\* mutant: the angle bands include their upper limits
Vector_Table_InclusiveBands(distance, abs_alt_diff, V_rel_knots, rel_angle) ==
  IF rel_angle <= ALARM_VECTOR_ANGLE
  THEN IF t_before(distance, abs_alt_diff, V_rel_knots, ALARM_TIME_URGENT) THEN ALARM_LEVEL_URGENT
       ELSE IF t_before(distance, abs_alt_diff, V_rel_knots, ALARM_TIME_IMPORTANT) THEN ALARM_LEVEL_IMPORTANT
       ELSE IF t_before(distance, abs_alt_diff, V_rel_knots, ALARM_TIME_LOW) THEN ALARM_LEVEL_LOW
       ELSE IF t_before(distance, abs_alt_diff, V_rel_knots, ALARM_TIME_CLOSE) THEN ALARM_LEVEL_CLOSE
       ELSE ALARM_LEVEL_NONE
  ELSE IF rel_angle <= 2 * ALARM_VECTOR_ANGLE
  THEN IF t_before(distance, abs_alt_diff, V_rel_knots, ALARM_TIME_URGENT) THEN ALARM_LEVEL_IMPORTANT
       ELSE IF t_before(distance, abs_alt_diff, V_rel_knots, ALARM_TIME_IMPORTANT) THEN ALARM_LEVEL_LOW
       ELSE IF t_before(distance, abs_alt_diff, V_rel_knots, ALARM_TIME_LOW) THEN ALARM_LEVEL_CLOSE
       ELSE ALARM_LEVEL_NONE
  ELSE IF rel_angle <= 3 * ALARM_VECTOR_ANGLE
  THEN IF t_before(distance, abs_alt_diff, V_rel_knots, ALARM_TIME_URGENT) THEN ALARM_LEVEL_LOW
       ELSE IF t_before(distance, abs_alt_diff, V_rel_knots, ALARM_TIME_IMPORTANT) THEN ALARM_LEVEL_CLOSE
       ELSE ALARM_LEVEL_NONE
  ELSE ALARM_LEVEL_NONE

\* the level for a relative speed above ALARM_VECTOR_SPEED: the angle band of
\* rel_angle picks the row, the time to impact the column
Vector_Table(distance, abs_alt_diff, V_rel_knots, rel_angle) ==
  IF rel_angle < ALARM_VECTOR_ANGLE
  THEN IF t_before(distance, abs_alt_diff, V_rel_knots, ALARM_TIME_URGENT) THEN ALARM_LEVEL_URGENT
       ELSE IF t_before(distance, abs_alt_diff, V_rel_knots, ALARM_TIME_IMPORTANT) THEN ALARM_LEVEL_IMPORTANT
       ELSE IF t_before(distance, abs_alt_diff, V_rel_knots, ALARM_TIME_LOW) THEN ALARM_LEVEL_LOW
       ELSE IF t_before(distance, abs_alt_diff, V_rel_knots, ALARM_TIME_CLOSE) THEN ALARM_LEVEL_CLOSE
       ELSE ALARM_LEVEL_NONE
  ELSE IF rel_angle < 2 * ALARM_VECTOR_ANGLE
  THEN IF t_before(distance, abs_alt_diff, V_rel_knots, ALARM_TIME_URGENT) THEN ALARM_LEVEL_IMPORTANT
       ELSE IF t_before(distance, abs_alt_diff, V_rel_knots, ALARM_TIME_IMPORTANT) THEN ALARM_LEVEL_LOW
       ELSE IF t_before(distance, abs_alt_diff, V_rel_knots, ALARM_TIME_LOW) THEN ALARM_LEVEL_CLOSE
       ELSE ALARM_LEVEL_NONE
  ELSE IF rel_angle < 3 * ALARM_VECTOR_ANGLE
  THEN IF t_before(distance, abs_alt_diff, V_rel_knots, ALARM_TIME_URGENT) THEN ALARM_LEVEL_LOW
       ELSE IF t_before(distance, abs_alt_diff, V_rel_knots, ALARM_TIME_IMPORTANT) THEN ALARM_LEVEL_CLOSE
       ELSE ALARM_LEVEL_NONE
  ELSE ALARM_LEVEL_NONE

\* the part of Alarm_Vector below the turn-rate test, for a target at the given
\* distance and bearing; both aircraft fly along the meridian, so V_rel_x is 0
\* and the relative speed in knots is |V_rel_y|
Vector_Relative(distance, bearing, abs_alt_diff, V_rel_y) ==
  IF ~ (abs_alt_diff < VERTICAL_SEPARATION) THEN ALARM_LEVEL_NONE
  ELSE IF ~ KnotsAbove(Abs(V_rel_y), ALARM_VECTOR_SPEED) THEN ALARM_LEVEL_NONE
  ELSE Vector_Table(distance, abs_alt_diff, Abs(V_rel_y),
                    Abs(atan2_approx_north(V_rel_y) - bearing))

\* Alarm_Vector: the alarm level from the relative velocity, for aircraft that
\* fly along the meridian
Alarm_Vector(this_aircraft, fop) ==
  IF this_aircraft.prevtime_ms = 0 \/ fop.gnsstime_ms - fop.prevtime_ms > 3000
  THEN ALARM_LEVEL_NONE
  ELSE IF fop.distance > 2 * ALARM_ZONE_CLOSE \/ Abs(fop.alt_diff) > 2 * VERTICAL_SEPARATION
  THEN ALARM_LEVEL_NONE
  ELSE IF fop.distance * 1000 > ALARM_TIME_CLOSE * 514 * (fop.speed + this_aircraft.speed)
  THEN ALARM_LEVEL_NONE
  ELSE IF this_aircraft.circling \/ Abs(this_aircraft.turnrate) > 3 \/ Abs(fop.turnrate) > 3
  THEN Alarm_Distance(this_aircraft, fop)
  ELSE Vector_Relative(fop.distance, fop.bearing,
                       Abs(Adj_alt_diff(this_aircraft, fop)),
                       this_aircraft.speed * cos_approx_cardinal(this_aircraft.course)
                         - fop.speed * cos_approx_cardinal(fop.course))

\* the scorer Traffic_setup selects from settings->alarm
Alarm_Level(alarm, this_aircraft, fop) ==
  CASE alarm = TRAFFIC_ALARM_NONE   -> Alarm_None(this_aircraft, fop)
    [] alarm = TRAFFIC_ALARM_LEGACY -> Alarm_Legacy(this_aircraft, fop)
    [] alarm = TRAFFIC_ALARM_VECTOR -> Alarm_Vector(this_aircraft, fop)
    [] OTHER                        -> Alarm_Distance(this_aircraft, fop)

\* mutant: the threshold is left two levels above the alarm level
Hysteresis_TwoAbove(alarm_level, alert_level) ==
  IF alarm_level < alert_level THEN alarm_level + 2 ELSE alert_level

\* the hysteresis step at the end of Traffic_Update
Hysteresis(alarm_level, alert_level) ==
  IF alarm_level < alert_level THEN alarm_level + 1 ELSE alert_level

Traffic_Update(alarm, this_aircraft, fop) ==
  LET y  == fop.latitude - this_aircraft.latitude
      f1 == [fop EXCEPT !.distance = Abs(y),
                        !.bearing  = atan2_approx_north(y),
                        !.alt_diff = fop.altitude - this_aircraft.altitude]
      lv == Alarm_Level(alarm, this_aircraft, f1)
  IN  [f1 EXCEPT !.alarm_level = lv,
                 !.alert_level = Hysteresis(lv, f1.alert_level)]

\* ------------------------------------------------------ generate_random_id
RECURSIVE XorBits(_, _, _)
XorBits(a, b, n) ==
  IF n = 0 THEN 0
  ELSE (((a % 2) + (b % 2)) % 2) + (2 * XorBits(a \div 2, b \div 2, n - 1))

\* (id ^ (id<<5) ^ (id>>5)) & 0x000FFFFF for a 32-bit id below 2^26
HashMillis(id) ==
  XorBits(XorBits(id % 1048576, (id % 32768) * 32, 20), ((id \div 32) % 1048576), 20)

\* mutant: the random prefix is used for every id method
generate_random_id_AlwaysE(id_method, millis) == HashMillis(millis) + 14680064

generate_random_id(id_method, millis) ==
  IF id_method = ADDR_TYPE_RANDOM
  THEN HashMillis(millis) + 14680064
  ELSE HashMillis(millis) + 15728640

\* ------------------------------------------------- 32-bit words of the codec
\* a uint32_t is kept as <<high 16 bits, low 16 bits>>
W(n) == <<n \div 65536, n % 65536>>

\* a ^ b for 4-bit and for 16-bit numbers
XorNibble == [a \in 0 .. 15 |-> [b \in 0 .. 15 |-> XorBits(a, b, 4)]]

Xor16(a, b) ==
  XorNibble[a % 16][b % 16]
  + (16 * XorNibble[(a \div 16) % 16][(b \div 16) % 16])
  + (256 * XorNibble[(a \div 256) % 16][(b \div 256) % 16])
  + (4096 * XorNibble[a \div 4096][b \div 4096])

Xor32(a, b) == <<Xor16(a[1], b[1]), Xor16(a[2], b[2])>>

Add32(a, b) ==
  LET lo == a[2] + b[2]
  IN  <<(a[1] + b[1] + (lo \div 65536)) % 65536, lo % 65536>>

Sub32(a, b) ==
  LET lo == (a[2] - b[2]) + 65536
  IN  <<((a[1] - b[1]) + 65535 + (lo \div 65536)) % 65536, lo % 65536>>

\* a >> k and a << k for 0 < k < 16
Shr32(a, k) == <<a[1] \div (2 ^ k), (a[2] \div (2 ^ k)) + ((a[1] % (2 ^ k)) * (2 ^ (16 - k)))>>

Shl32(a, k) ==
  <<((a[1] % (2 ^ (16 - k))) * (2 ^ k)) + (a[2] \div (2 ^ (16 - k))),
    (a[2] % (2 ^ (16 - k))) * (2 ^ k)>>

\* the 32-bit product of two 16-bit numbers
Mul16(x, y) == Add32(W((x % 256) * y), Shl32(W((x \div 256) * y), 8))

\* a * b in uint32_t
Mul32(a, b) ==
  LET low == Mul16(a[2], b[2])
  IN  <<(low[1] + Mul16(a[1], b[2])[2] + Mul16(a[2], b[1])[2]) % 65536, low[2]>>

\* the number of one bits of a 16-bit number
RECURSIVE Ones(_, _)
Ones(x, n) == IF n = 0 THEN 0 ELSE (x % 2) + Ones(x \div 2, n - 1)

\* ---------------------------------------------------------------- btea
DELTA == <<40503, 31161>>
ROUNDS == 6

MX(z, y, sum, key, p, e) ==
  Xor32(Add32(Xor32(Shr32(z, 5), Shl32(y, 2)), Xor32(Shr32(y, 3), Shl32(z, 4))),
        Add32(Xor32(sum, y), Xor32(key[XorBits(p % 4, e, 2) + 1], z)))

\* the coding pass over the n words from word p on
RECURSIVE CodingPass(_, _, _, _, _, _)
CodingPass(v, z, p, sum, key, e) ==
  IF p >= Len(v) THEN v
  ELSE LET y  == v[((p + 1) % Len(v)) + 1]
           vp == Add32(v[p + 1], MX(z, y, sum, key, p, e))
       IN  CodingPass([v EXCEPT ![p + 1] = vp], vp, p + 1, sum, key, e)

RECURSIVE Coding(_, _, _, _)
Coding(v, sum, rounds, key) ==
  IF rounds = 0 THEN v
  ELSE LET sum1 == Add32(sum, DELTA)
           e    == (sum1[2] \div 4) % 4
       IN  Coding(CodingPass(v, v[Len(v)], 0, sum1, key, e), sum1, rounds - 1, key)

\* the decoding pass over the n words from word p down
RECURSIVE DecodingPass(_, _, _, _, _, _)
DecodingPass(v, y, p, sum, key, e) ==
  IF p < 0 THEN v
  ELSE LET z  == v[((p + Len(v) - 1) % Len(v)) + 1]
           vp == Sub32(v[p + 1], MX(z, y, sum, key, p, e))
       IN  DecodingPass([v EXCEPT ![p + 1] = vp], vp, p - 1, sum, key, e)

RECURSIVE Decoding(_, _, _, _)
Decoding(v, sum, rounds, key) ==
  IF rounds = 0 THEN v
  ELSE LET e == (sum[2] \div 4) % 4
       IN  Decoding(DecodingPass(v, v[1], Len(v) - 1, sum, key, e),
                    Sub32(sum, DELTA), rounds - 1, key)

RECURSIVE Times(_, _)
Times(a, k) == IF k = 0 THEN <<0, 0>> ELSE Add32(a, Times(a, k - 1))

\* btea(v, n, key) on the n = Len(v) words v: n > 1 codes, n < -1 decodes
btea(v, n, key) ==
  IF n > 1 THEN Coding(v, <<0, 0>>, ROUNDS, key)
  ELSE IF n < -1 THEN Decoding(v, Times(DELTA, ROUNDS), ROUNDS, key)
  ELSE v

\* ------------------------------------------------------------- make_key
obscure(key, seed) ==
  LET m1 == Mul32(seed, Xor32(key, <<0, key[1]>>))
      m2 == Mul32(seed, Xor32(m1, <<0, m1[1]>>))
  IN  Xor32(m2, <<0, m2[1]>>)

LEGACY_KEY1 ==
  << <<58418, 30431>>, <<56488, 14169>>, <<38914, 47276>>, <<18037, 42347>>,
     <<64632, 60005>>, <<32843, 37098>>, <<46949, 17101>>, <<12957, 64050>> >>
LEGACY_KEY2 == <<1117, 40763>>
LEGACY_KEY3 == <<34741, 25332>>

\* mutant: the key changes with every second
make_key_PerSecond(timestamp, address) ==
  [i \in 1 .. 4 |->
     LET ndx == IF (timestamp \div 8388608) % 2 = 1 THEN i + 4 ELSE i
     IN  Xor32(obscure(Xor32(LEGACY_KEY1[ndx], Xor32(W(timestamp), W(address))),
                       LEGACY_KEY2),
               LEGACY_KEY3)]

\* the four key words for a timestamp in seconds and an address
make_key(timestamp, address) ==
  [i \in 1 .. 4 |->
     LET ndx == IF (timestamp \div 8388608) % 2 = 1 THEN i + 4 ELSE i
     IN  Xor32(obscure(Xor32(LEGACY_KEY1[ndx], Xor32(W(timestamp \div 64), W(address))),
                       LEGACY_KEY2),
               LEGACY_KEY3)]

\* ------------------------------------------------------- legacy_packet_t
\* the six 32-bit words of the packet with the fields f
Pack(f) ==
  << <<(f.addr \div 65536) + (f.addr_type * 4096), f.addr % 65536>>,
     <<f.gps + (f.aircraft_type * 4096),
       f.vs + (f.unk2 * 1024) + (f.airborne * 4096) + (f.stealth * 8192)
            + (f.no_track * 16384) + (f.parity * 32768)>>,
     <<(f.lat \div 65536) + (f.alt * 8), f.lat % 65536>>,
     <<(f.lon \div 65536) + (f.smult * 16384), f.lon % 65536>>,
     <<(f.ns * 256) + f.ns, (f.ns * 256) + f.ns>>,
     <<(f.ew * 256) + f.ew, (f.ew * 256) + f.ew>> >>

\* the fields of the six words v
Unpack(v) ==
  [addr          |-> ((v[1][1] % 256) * 65536) + v[1][2],
   addr_type     |-> (v[1][1] \div 4096) % 8,
   vs            |-> v[2][2] % 1024,
   unk2          |-> (v[2][2] \div 1024) % 4,
   airborne      |-> (v[2][2] \div 4096) % 2,
   stealth       |-> (v[2][2] \div 8192) % 2,
   no_track      |-> (v[2][2] \div 16384) % 2,
   parity        |-> (v[2][2] \div 32768) % 2,
   gps           |-> v[2][1] % 4096,
   aircraft_type |-> v[2][1] \div 4096,
   lat           |-> ((v[3][1] % 8) * 65536) + v[3][2],
   alt           |-> v[3][1] \div 8,
   lon           |-> ((v[4][1] % 16) * 65536) + v[4][2],
   smult         |-> v[4][1] \div 16384,
   ns            |-> v[5][2] % 256,
   ew            |-> v[6][2] % 256]

\* the sum over all 24 bytes of parity(byte), modulo 2
RECURSIVE PktParity(_)
PktParity(v) ==
  IF v = << >> THEN 0
  ELSE (Ones(Head(v)[1], 16) + Ones(Head(v)[2], 16) + PktParity(Tail(v))) % 2

\* ((x * 1e7) + 0x40) >> 7 with the sign restored
RoundShift7(x) == IF x < 0 THEN -(((-x) + 64) \div 128) ELSE (x + 64) \div 128

\* the folded position field of legacy_encode: x in 1e-7 degrees, bits wide
EncodeCoord(x, bits) == RoundShift7(x) % (2 ^ bits)

\* the position legacy_decode unfolds from the field raw around the reference
\* ref, in 1e-7 degrees
DecodeCoord(raw, ref, bits) ==
  LET round == RoundShift7(ref)
      i0    == (raw - round) % (2 ^ bits)
      i     == IF i0 >= 2 ^ (bits - 1) THEN i0 - (2 ^ bits) ELSE i0
  IN  (i + round) * 128

\* positions are kept in metres north of the origin: 1e-7 degrees of latitude per metre
E7PerMetre == 90

\* speed4 of legacy_encode: quarter metres per second for a speed in knots
Speed4(speed) == MinOf({1023, ((speed * 514 * 4) + 500) \div 1000})

Smult(speed4) ==
  IF (speed4 \div 512) % 2 = 1 THEN 3
  ELSE IF (speed4 \div 256) % 2 = 1 THEN 2
  ELSE IF (speed4 \div 128) % 2 = 1 THEN 1
  ELSE 0

\* pkt->alt of legacy_encode: the ellipsoid altitude in metres as int16_t,
\* stored in the 13 bits of the field
AltField(altitude, geoid_separation) ==
  ((((altitude + geoid_separation) + 32768) % 65536) - 32768) % 8192

\* fop->altitude of legacy_decode: the field less the receiver's geoid separation
AltitudeOf(alt, geo_separ) == alt - geo_separ

\* mutant: the parity bit is left at 0
legacy_encode_NoParityBit(this_aircraft, id_method) ==
  LET smult == Smult(Speed4(this_aircraft.speed))
      north == IF this_aircraft.course = 180 THEN -Speed4(this_aircraft.speed)
               ELSE Speed4(this_aircraft.speed)
      f0 == [addr |-> this_aircraft.addr % 16777216, addr_type |-> id_method,
             vs |-> 0, unk2 |-> 1, airborne |-> 1,
             stealth |-> IF this_aircraft.stealth THEN 1 ELSE 0,
             no_track |-> 0, parity |-> 0, gps |-> 323, aircraft_type |-> 1,
             lat |-> EncodeCoord(this_aircraft.latitude * E7PerMetre, 19),
             alt |-> AltField(this_aircraft.altitude, this_aircraft.geoid_separation),
             lon |-> EncodeCoord(0, 20),
             smult |-> smult,
             ns |-> (north \div (2 ^ smult)) % 256, ew |-> 0]
      plain == Pack(f0)
      key == make_key(this_aircraft.timestamp, (f0.addr * 256) % 16777216)
  IN  [plain |-> plain,
       pkt   |-> <<plain[1]>> \o btea(SubSeq(plain, 2, 6), 5, key)]

\* legacy_encode: the plaintext packet of this_aircraft and the packet sent
legacy_encode(this_aircraft, id_method) ==
  LET smult == Smult(Speed4(this_aircraft.speed))
      north == IF this_aircraft.course = 180 THEN -Speed4(this_aircraft.speed)
               ELSE Speed4(this_aircraft.speed)
      f0 == [addr |-> this_aircraft.addr % 16777216, addr_type |-> id_method,
             vs |-> 0, unk2 |-> 1, airborne |-> 1,
             stealth |-> IF this_aircraft.stealth THEN 1 ELSE 0,
             no_track |-> 0, parity |-> 0, gps |-> 323, aircraft_type |-> 1,
             lat |-> EncodeCoord(this_aircraft.latitude * E7PerMetre, 19),
             alt |-> AltField(this_aircraft.altitude, this_aircraft.geoid_separation),
             lon |-> EncodeCoord(0, 20),
             smult |-> smult,
             ns |-> (north \div (2 ^ smult)) % 256, ew |-> 0]
      plain == Pack([f0 EXCEPT !.parity = PktParity(Pack(f0))])
      key == make_key(this_aircraft.timestamp, (f0.addr * 256) % 16777216)
  IN  [plain |-> plain,
       pkt   |-> <<plain[1]>> \o btea(SubSeq(plain, 2, 6), 5, key)]

\* mutant: the address is written to the output record before the parity check
legacy_decode_AddrFirst(legacy_pkt, this_aircraft, fop) ==
  LET addr == Unpack(legacy_pkt).addr
      key  == make_key(this_aircraft.timestamp, (addr * 256) % 16777216)
      pkt  == <<legacy_pkt[1]>> \o btea(SubSeq(legacy_pkt, 2, 6), -5, key)
      f    == Unpack(pkt)
      nsf  == (IF f.ns >= 128 THEN f.ns - 256 ELSE f.ns) * (2 ^ f.smult)
  IN  IF PktParity(pkt) = 1
      THEN [rval |-> FALSE, pkt |-> pkt, fop |-> [fop EXCEPT !.addr = f.addr]]
      ELSE IF f.addr = settings.ignore_id \/ f.addr = ThisAircraft.addr
      THEN [rval |-> TRUE, pkt |-> pkt, fop |-> [fop EXCEPT !.addr = f.addr]]
      ELSE [rval |-> TRUE, pkt |-> pkt,
            fop  |-> [fop EXCEPT
                        !.addr = f.addr,
                        !.timestamp = this_aircraft.timestamp,
                        !.latitude = DecodeCoord(f.lat, this_aircraft.latitude * E7PerMetre, 19)
                                       \div E7PerMetre,
                        !.altitude = AltitudeOf(f.alt, this_aircraft.geoid_separation),
                        !.speed = (Abs(nsf) * 1000) \div (4 * 514),
                        !.course = IF nsf < 0 THEN 180 ELSE 0,
                        !.vs = f.vs,
                        !.stealth = (f.stealth = 1)]]

\* legacy_decode: the return value, the packet buffer decrypted in place, and
\* the output record
legacy_decode(legacy_pkt, this_aircraft, fop) ==
  LET addr == Unpack(legacy_pkt).addr
      key  == make_key(this_aircraft.timestamp, (addr * 256) % 16777216)
      pkt  == <<legacy_pkt[1]>> \o btea(SubSeq(legacy_pkt, 2, 6), -5, key)
      f    == Unpack(pkt)
      nsf  == (IF f.ns >= 128 THEN f.ns - 256 ELSE f.ns) * (2 ^ f.smult)
  IN  IF PktParity(pkt) = 1
      THEN [rval |-> FALSE, pkt |-> pkt, fop |-> fop]
      ELSE IF f.addr = settings.ignore_id \/ f.addr = ThisAircraft.addr
      THEN [rval |-> TRUE, pkt |-> pkt, fop |-> [fop EXCEPT !.addr = f.addr]]
      ELSE [rval |-> TRUE, pkt |-> pkt,
            fop  |-> [fop EXCEPT
                        !.addr = f.addr,
                        !.timestamp = this_aircraft.timestamp,
                        !.latitude = DecodeCoord(f.lat, this_aircraft.latitude * E7PerMetre, 19)
                                       \div E7PerMetre,
                        !.altitude = AltitudeOf(f.alt, this_aircraft.geoid_separation),
                        !.speed = (Abs(nsf) * 1000) \div (4 * 514),
                        !.course = IF nsf < 0 THEN 180 ELSE 0,
                        !.vs = f.vs,
                        !.stealth = (f.stealth = 1)]]

\* nothing on the air, nothing decoded
NoPacket ==
  [pkt |-> << >>, plain |-> << >>, sender |-> [addr |-> 0, timestamp |-> 0],
   rx  |-> [rval |-> FALSE, pkt |-> << >>, fop |-> EmptyFO, timestamp |-> 0]]

\* --------------------------------------------------------------- ParseData
\* what protocol_decode leaves in fo for a packet that is neither ignored nor own
Decoded(p) ==
  [EmptyFO EXCEPT !.addr = p.addr,
                  !.timestamp = ThisAircraft.timestamp,
                  !.latitude = p.latitude,
                  !.altitude = p.altitude,
                  !.vs = p.vs,
                  !.speed = p.speed,
                  !.course = p.course,
                  !.stealth = p.stealth]

\* distance adjusted for altitude difference, as the replacement policy computes it
AdjDistance(this_aircraft, fop) ==
  fop.distance + (VERTICAL_SLOPE * Abs(Adj_alt_diff(this_aircraft, fop)))

\* mutant: among equally far objects the last one is taken
RECURSIVE Farthest_LastMax(_, _, _)
Farthest_LastMax(i, max_dist_ndx, adj_max_dist) ==
  IF i >= MAX_TRACKING_OBJECTS THEN <<max_dist_ndx, adj_max_dist>>
  ELSE LET adj_distance == AdjDistance(ThisAircraft, Container[i])
       IN  IF adj_distance >= adj_max_dist
           THEN Farthest_LastMax(i + 1, i, adj_distance)
           ELSE Farthest_LastMax(i + 1, max_dist_ndx, adj_max_dist)

\* the loop that identifies the farthest-away object: <<max_dist_ndx, adj_max_dist>>
RECURSIVE Farthest(_, _, _)
Farthest(i, max_dist_ndx, adj_max_dist) ==
  IF i >= MAX_TRACKING_OBJECTS THEN <<max_dist_ndx, adj_max_dist>>
  ELSE LET adj_distance == AdjDistance(ThisAircraft, Container[i])
       IN  IF adj_distance > adj_max_dist
           THEN Farthest(i + 1, i, adj_distance)
           ELSE Farthest(i + 1, max_dist_ndx, adj_max_dist)

\* mutant: the search loop stops after the first slot
SameAddr_FirstSlotOnly(fo) == {i \in {0} : Container[i].addr = fo.addr}

\* slots holding the incoming address
SameAddr(fo) == {i \in Slots : Container[i].addr = fo.addr}

\* mutant: only empty slots are free
ExpiredSlots_EmptyOnly == {i \in Slots : Container[i].addr = 0}

\* slots that are empty or expired by now()
ExpiredSlots == {i \in Slots : now - Container[i].timestamp > ENTRY_EXPIRATION_TIME}

\* mutant: the last slot of lower alarm level is the one replaced
LowerAlarm_LastOnly(fo) ==
  {i \in Slots : /\ fo.alarm_level > Container[i].alarm_level
                 /\ \A j \in Slots : fo.alarm_level > Container[j].alarm_level => j <= i}

\* mutant: a slot of equal alarm level is replaced too
LowerAlarm_OrEqual(fo) == {i \in Slots : fo.alarm_level >= Container[i].alarm_level}

\* slots of lower alarm level than the incoming object
LowerAlarm(fo) == {i \in Slots : fo.alarm_level > Container[i].alarm_level}

\* mutant: the history fields of the slot are carried over as they are
Refresh_KeepsHistory(old, fo) ==
  [fo EXCEPT !.alert = old.alert, !.alert_level = old.alert_level,
             !.prevcourse = old.prevcourse, !.prevtime_ms = old.prevtime_ms]

\* the slot overwritten when an already tracked address is heard again: the
\* alert fields are kept, the slot's course and sample time become the
\* previous ones
Refresh(old, fo) ==
  [fo EXCEPT !.alert = old.alert, !.alert_level = old.alert_level,
             !.prevcourse = old.course, !.prevtime_ms = old.gnsstime_ms]

\* ParseData on the received packet p, with millis() = millis: the new table,
\* own aircraft and settings, the return that was taken, the slot written
\* ParseData once the packet is decoded into fo and scored
ParseDataStore(p, millis, fo) ==
  LET keep(lbl) == [C |-> Container, T |-> ThisAircraft, S |-> settings, out |-> lbl,
                    slot |-> MAX_TRACKING_OBJECTS]
      put(i, rec, lbl) ==
        [C |-> [Container EXCEPT ![i] = rec], T |-> ThisAircraft, S |-> settings, out |-> lbl,
         slot |-> i]
      far == Farthest(0, 0, 0)
  IN  IF p.raw = "tx" THEN keep("loopback")
      ELSE IF p.raw = "bad" THEN keep("parity")
      ELSE IF p.addr = settings.ignore_id THEN keep("ignored")
      ELSE IF p.addr = ThisAircraft.addr
      THEN [C |-> Container,
            T |-> [ThisAircraft EXCEPT
                     !.addr = generate_random_id(ADDR_TYPE_ANONYMOUS, millis)],
            S |-> [settings EXCEPT !.id_method = ADDR_TYPE_ANONYMOUS],
            out |-> "self", slot |-> MAX_TRACKING_OBJECTS]
      ELSE IF SameAddr(fo) # {}
      THEN LET i == LowestIndex(SameAddr(fo))
           IN  put(i, Refresh(Container[i], fo), "refreshed")
      ELSE IF ExpiredSlots # {}
      THEN put(LowestIndex(ExpiredSlots), fo, "inserted")
      ELSE IF LowerAlarm(fo) # {}
      THEN put(LowestIndex(LowerAlarm(fo)), fo, "replaced_lower")
      ELSE IF AdjDistance(ThisAircraft, fo) < far[2]
              /\ fo.alarm_level >= Container[far[1]].alarm_level
      THEN put(far[1], fo, "replaced_farthest")
      ELSE keep("dropped")

\* the decoder stamps the object with millis()
ParseDataResult(p, millis) ==
  ParseDataStore(p, millis,
                 Traffic_Update(settings.alarm, ThisAircraft,
                                [Decoded(p) EXCEPT !.gnsstime_ms = millis]))

\* ------------------------------------------------------------ Traffic_loop
isTimeToUpdateTraffic == now - UpdateTrafficTimeMarker >= TRAFFIC_UPDATE_INTERVAL

\* mutant: a slot is kept one second longer
SweepSlot_KeepsLonger(fop) ==
  IF fop.addr = 0 THEN fop
  ELSE IF ThisAircraft.timestamp - fop.timestamp <= ENTRY_EXPIRATION_TIME + 1
  THEN IF ThisAircraft.timestamp - fop.timestamp >= TRAFFIC_VECTOR_UPDATE_INTERVAL
       THEN Traffic_Update(settings.alarm, ThisAircraft, fop)
       ELSE fop
  ELSE EmptyFO

\* the sweep's treatment of one slot: expire it, rescore it, or leave it
SweepSlot(fop) ==
  IF fop.addr = 0 THEN fop
  ELSE IF ThisAircraft.timestamp - fop.timestamp <= ENTRY_EXPIRATION_TIME
  THEN IF ThisAircraft.timestamp - fop.timestamp >= TRAFFIC_VECTOR_UPDATE_INTERVAL
       THEN Traffic_Update(settings.alarm, ThisAircraft, fop)
       ELSE fop
  ELSE EmptyFO

\* mutant: a sound is due as soon as the alarm level reaches the threshold
NeedSound_AtThreshold(C) ==
  {i \in Slots : /\ C[i].addr # 0
                 /\ C[i].alarm_level >= C[i].alert_level
                 /\ C[i].alarm_level > ALARM_LEVEL_CLOSE}

\* slots needing a sound alert after the rescoring
NeedSound(C) ==
  {i \in Slots : /\ C[i].addr # 0
                 /\ C[i].alarm_level > C[i].alert_level
                 /\ C[i].alarm_level > ALARM_LEVEL_CLOSE}

\* slots the sweep rescores, and slots it empties
Rescored ==
  {i \in Slots : /\ Container[i].addr # 0
                 /\ ThisAircraft.timestamp - Container[i].timestamp <= ENTRY_EXPIRATION_TIME
                 /\ ThisAircraft.timestamp - Container[i].timestamp >= TRAFFIC_VECTOR_UPDATE_INTERVAL}

Cleared ==
  {i \in Slots : /\ Container[i].addr # 0
                 /\ ThisAircraft.timestamp - Container[i].timestamp > ENTRY_EXPIRATION_TIME}

\* mutant: the sound is fired for the first slot that needs one
TrafficLoopResult_FirstDue ==
  IF ~ isTimeToUpdateTraffic
  THEN [C |-> Container, max_alarm_level |-> ALARM_LEVEL_NONE,
        mfop |-> MAX_TRACKING_OBJECTS, swept |-> FALSE]
  ELSE LET C1  == [i \in Slots |-> SweepSlot(Container[i])]
           cand == NeedSound(C1)
       IN  IF cand = {}
           THEN [C |-> C1, max_alarm_level |-> ALARM_LEVEL_NONE,
                 mfop |-> MAX_TRACKING_OBJECTS, swept |-> TRUE]
           ELSE LET m  == LowestIndex(cand)
                    lv == C1[m].alarm_level
                IN  [C |-> [C1 EXCEPT ![m].alert_level = C1[m].alarm_level + 1,
                                      ![m].alert = TRAFFIC_ALERT_SOUND],
                     max_alarm_level |-> lv, mfop |-> m, swept |-> TRUE]

\* mutant: of the slots with the highest alarm level the last one is sounded
SoundAfterSweep_LastHighest(C1, cand) ==
  IF cand = {}
  THEN [C |-> C1, max_alarm_level |-> ALARM_LEVEL_NONE,
        mfop |-> MAX_TRACKING_OBJECTS, swept |-> TRUE]
  ELSE LET lv == MaxOf({C1[i].alarm_level : i \in cand})
           m  == MaxOf({i \in cand : C1[i].alarm_level = lv})
       IN  [C |-> [C1 EXCEPT ![m].alert_level = C1[m].alarm_level + 1,
                             ![m].alert = TRAFFIC_ALERT_SOUND],
            max_alarm_level |-> lv, mfop |-> m, swept |-> TRUE]

\* one call of Traffic_loop: the new table, the level for Sound_Notify (0: none),
\* the slot whose alert_level was raised (MAX_TRACKING_OBJECTS: none)
\* the sound decision of Traffic_loop over the swept table C1
SoundAfterSweep(C1, cand) ==
  IF cand = {}
  THEN [C |-> C1, max_alarm_level |-> ALARM_LEVEL_NONE,
        mfop |-> MAX_TRACKING_OBJECTS, swept |-> TRUE]
  ELSE LET lv == MaxOf({C1[i].alarm_level : i \in cand})
           m  == LowestIndex({i \in cand : C1[i].alarm_level = lv})
       IN  [C |-> [C1 EXCEPT ![m].alert_level = C1[m].alarm_level + 1,
                             ![m].alert = TRAFFIC_ALERT_SOUND],
            max_alarm_level |-> lv, mfop |-> m, swept |-> TRUE]

\* the table after the sweep of Traffic_loop
SweptTable(C1) == SoundAfterSweep(C1, NeedSound(C1))

TrafficLoopResult ==
  IF ~ isTimeToUpdateTraffic
  THEN [C |-> Container, max_alarm_level |-> ALARM_LEVEL_NONE,
        mfop |-> MAX_TRACKING_OBJECTS, swept |-> FALSE]
  ELSE SweptTable([i \in Slots |-> SweepSlot(Container[i])])

\* ------------------------------------------------------------------ inputs
\* where the other aircraft are: metres north of the origin, altitude
Placements ==
  { [latitude |-> 100,  altitude |-> 0],
    [latitude |-> 900,  altitude |-> 0],
    [latitude |-> 600,  altitude |-> 100] }

\* the packets heard: own transmissions, damaged ones, and other aircraft that
\* fly south at 80 knots
PacketsFrom(addrs, places) ==
  { [raw |-> "tx",  addr |-> 0, latitude |-> 0, altitude |-> 0, vs |-> 0,
     speed |-> 0, course |-> 0, stealth |-> FALSE],
    [raw |-> "bad", addr |-> 0, latitude |-> 0, altitude |-> 0, vs |-> 0,
     speed |-> 0, course |-> 0, stealth |-> FALSE] }
  \cup
  { [raw |-> "ok", addr |-> a, latitude |-> q.latitude, altitude |-> q.altitude, vs |-> 0,
     speed |-> 80, course |-> 180, stealth |-> FALSE] :
      a \in addrs, q \in places }

\* ------------------------------------------------------------------- state
\* no sound fired yet for any slot
NoHistory ==
  [level  |-> [i \in Slots |-> 0],
   lowest |-> [i \in Slots |-> ALARM_LEVEL_URGENT + 1],
   swept  |-> [i \in Slots |-> ALARM_LEVEL_URGENT + 1],
   fired  |-> MAX_TRACKING_OBJECTS,
   before |-> [level |-> 0, lowest |-> 0, swept |-> 0]]

\* nothing exported yet
NoSentences == [pflaa |-> << >>, pflau |-> << >>, psrfh |-> FALSE, beatcount |-> 0]

Settings(ignore_id, id_method, follow_id, nmea_l) ==
  [ignore_id |-> ignore_id, id_method |-> id_method, alarm |-> TRAFFIC_ALARM_DISTANCE,
   follow_id |-> follow_id, nmea_l |-> nmea_l,
   nmea_out |-> "NMEA_UART", nmea_out2 |-> "NMEA_OFF"]

\* the program's own state after setup with the settings s and the own
\* address addr
SetupState(s, addr) ==
  /\ now = StartTime
  /\ ticks = 0
  /\ ThisAircraft = [addr |-> addr, timestamp |-> StartTime, latitude |-> 0,
                     altitude |-> 0, geoid_separation |-> 0, vs |-> 0,
                     prevtime_ms |-> 0, stealth |-> FALSE,
                     speed |-> 0, course |-> 0, turnrate |-> 0, circling |-> FALSE]
  /\ settings = s
  /\ Container = [i \in Slots |-> EmptyFO]
  /\ UpdateTrafficTimeMarker = 0
  /\ notified = ALARM_LEVEL_NONE
  /\ outcome = "boot"
  /\ hist = NoHistory
  /\ scen = [step |-> 0, sounded |-> {}, phase |-> "move"]
  /\ sentences = NoSentences

\* the state after setup, with nothing on the air
Setup(s, addr) == SetupState(s, addr) /\ air = NoPacket

\* the own aircraft has the device address 1, nothing is followed
Boot(ignore_id) == Setup(Settings(ignore_id, ADDR_TYPE_FLARM, 0, TRUE), 1)

\* the main loop has a valid GPS fix: GNSS_loop has delivered a position
isValidFix == ThisAircraft.prevtime_ms # 0

\* the clock advances by one of steps, at most limit times; with a valid fix
\* the main loop stamps the own record with now()
Tick(steps, limit) ==
  \E dt \in steps :
    /\ ticks < limit
    /\ now' = now + dt
    /\ ticks' = ticks + 1
    /\ ThisAircraft' = IF isValidFix
                       THEN [ThisAircraft EXCEPT !.timestamp = now + dt]
                       ELSE ThisAircraft
    /\ notified' = ALARM_LEVEL_NONE
    /\ outcome' = "tick"
    /\ UNCHANGED <<settings, Container, UpdateTrafficTimeMarker>>

\* a new GNSS fix: the own aircraft is at one of lats and has a previous sample
GNSS_loop(lats) ==
  \E lat \in lats :
    /\ ThisAircraft' = [ThisAircraft EXCEPT !.latitude = lat, !.prevtime_ms = 1,
                                            !.timestamp = now]
    /\ notified' = ALARM_LEVEL_NONE
    /\ outcome' = "fix"
    /\ UNCHANGED <<now, ticks, settings, Container, UpdateTrafficTimeMarker>>

ParseData(p, millis) ==
  \E r \in {ParseDataResult(p, millis)} :
      /\ Container' = r.C
      /\ ThisAircraft' = r.T
      /\ settings' = r.S
      /\ notified' = ALARM_LEVEL_NONE
      /\ outcome' = r.out
      /\ UNCHANGED <<now, ticks, UpdateTrafficTimeMarker>>

\* with a valid fix the main loop hands a received packet to ParseData
Receive(packets, clock) ==
  /\ isValidFix
  /\ \E p \in packets, millis \in clock : ParseData(p, millis)

\* the main loop calls Traffic_loop when it has a valid fix
Traffic_loop ==
  /\ isValidFix
  /\ \E r \in {TrafficLoopResult} :
      /\ Container' = r.C
      /\ notified' = r.max_alarm_level
      /\ UpdateTrafficTimeMarker' = IF r.swept THEN now ELSE UpdateTrafficTimeMarker
      /\ outcome' = IF ~ r.swept THEN "gated"
                    ELSE IF Cleared # {} THEN "expired" ELSE "sweep"
      /\ UNCHANGED <<now, ticks, ThisAircraft, settings>>

\* ------------------------------------------- the tracking table under load
\* three other aircraft and one ignored address compete for the slots, the
\* third aircraft and the ignored one from one place; the clock jumps past the
\* expiration time
TablePackets ==
  PacketsFrom({2, 3}, Placements) \cup PacketsFrom({4, 5}, {[latitude |-> 600, altitude |-> 100]})

InitTable == Boot(5)

NextTable ==
  \/ Tick({ENTRY_EXPIRATION_TIME + 1}, MaxJumps) /\ UNCHANGED <<hist, scen, sentences, air>>
  \/ GNSS_loop({0}) /\ UNCHANGED <<hist, scen, sentences, air>>
  \/ Receive(TablePackets, {5000}) /\ UNCHANGED <<hist, scen, sentences, air>>
  \/ Traffic_loop /\ UNCHANGED <<hist, scen, sentences, air>>

SpecTable == InitTable /\ [][NextTable]_vars

\* ------------------------------------------------------------ claims: table
NonEmpty(C) == {i \in Slots : C[i].addr # 0}

\* C3: any two distinct non-empty slots of Container hold different addresses
C3_DistinctAddresses ==
  \A i, j \in NonEmpty(Container) : i # j => Container[i].addr # Container[j].addr

\* a full table of different aircraft in which an already tracked one was heard again
C3_Witness ==
  /\ outcome = "refreshed"
  /\ Cardinality(NonEmpty(Container)) = MAX_TRACKING_OBJECTS
  /\ MAX_TRACKING_OBJECTS > 1

\* a ranks strictly better than b: higher alarm level, or equal level and closer
RanksBetter(a, b) ==
  \/ a.alarm_level > b.alarm_level
  \/ /\ a.alarm_level = b.alarm_level
     /\ AdjDistance(ThisAircraft, a) < AdjDistance(ThisAircraft, b)

\* the target that ParseData(p) leaves outside the table: the incoming one when
\* it is dropped, the overwritten one when a live slot is replaced
LeftOut(p) ==
  LET r  == ParseDataResult(p, 5000)
      fo == Traffic_Update(settings.alarm, ThisAircraft, Decoded(p))
  IN  IF r.out = "dropped" THEN {fo}
      ELSE IF r.out \in {"replaced_lower", "replaced_farthest"}
      THEN {Container[i] : i \in {j \in Slots : r.C[j] # Container[j]}}
      ELSE {}

\* C5: the table never holds more than MAX_TRACKING_OBJECTS targets, and no
\* target dropped or evicted by ParseData ranks strictly better than a retained one
C5_RetainedSetClosed ==
  /\ Cardinality(NonEmpty(Container)) <= MAX_TRACKING_OBJECTS
  /\ \A p \in TablePackets :
       \A out \in LeftOut(p) :
         \A i \in Slots : ~ RanksBetter(out, ParseDataResult(p, 5000).C[i])

\* the table is full of live tracks of other addresses and no replacement
\* policy admits the incoming object fo
NotAdmitted(fo) ==
  LET adj(i) == AdjDistance(ThisAircraft, Container[i])
      maxd   == MaxOf({adj(i) : i \in Slots})
      far    == LowestIndex({i \in Slots : adj(i) = maxd})
  IN  /\ \A i \in Slots : Container[i].addr # fo.addr
      /\ \A i \in Slots : now - Container[i].timestamp <= ENTRY_EXPIRATION_TIME
      /\ \A i \in Slots : Container[i].alarm_level >= fo.alarm_level
      /\ ~ (AdjDistance(ThisAircraft, fo) < maxd
            /\ fo.alarm_level >= Container[far].alarm_level)

\* the packet is one that ParseData rejects
Rejected(p) ==
  \/ p.raw = "tx"
  \/ p.raw = "bad"
  \/ p.addr = settings.ignore_id
  \/ /\ p.addr # ThisAircraft.addr
     /\ NotAdmitted(Traffic_Update(settings.alarm, ThisAircraft, Decoded(p)))

\* C6: a packet that ParseData rejects (loopback, bad parity, ignored address,
\* or no policy admits it into the full table) leaves every slot of the table
\* and the own address unchanged
C6_RejectedChangesNothing ==
  \A p \in TablePackets :
    Rejected(p) =>
      /\ ParseDataResult(p, 5000).C = Container
      /\ ParseDataResult(p, 5000).T.addr = ThisAircraft.addr

\* a packet was dropped because the full table had no place for it
C6_Witness ==
  /\ outcome = "dropped"
  /\ \A i \in Slots : Container[i].addr # 0
                      /\ now - Container[i].timestamp <= ENTRY_EXPIRATION_TIME

\* --------------------------------------------- the sweep and its hysteresis
\* history kept beside the table: for each slot's track the level of its last
\* sound (0: none yet), the lowest level it was scored at since then on any
\* path (lowest) and by the sweep's own Traffic_Update (swept); the slot whose
\* sound the last sweep fired, and that slot's history before the sweep
Lower(a, b) == IF a < b THEN a ELSE b

Forgotten(h, i) ==
  [h EXCEPT !.level[i] = 0,
            !.lowest[i] = ALARM_LEVEL_URGENT + 1,
            !.swept[i] = ALARM_LEVEL_URGENT + 1]

\* ParseData took return r: a refreshed track is scored again, a slot given
\* to another track starts without history
HistAfterParse(r) ==
  LET h == [hist EXCEPT !.fired = MAX_TRACKING_OBJECTS, !.before = NoHistory.before]
  IN  IF r.slot = MAX_TRACKING_OBJECTS THEN h
      ELSE IF r.out = "refreshed"
      THEN [h EXCEPT !.lowest[r.slot] = Lower(@, r.C[r.slot].alarm_level)]
      ELSE Forgotten(h, r.slot)

RECURSIVE HistSweepSlots(_, _, _)
HistSweepSlots(h, r, i) ==
  IF i >= MAX_TRACKING_OBJECTS THEN h
  ELSE HistSweepSlots(
         IF i \in Cleared THEN Forgotten(h, i)
         ELSE IF i = r.mfop
         THEN [h EXCEPT !.level[i] = r.max_alarm_level,
                        !.lowest[i] = ALARM_LEVEL_URGENT + 1,
                        !.swept[i] = ALARM_LEVEL_URGENT + 1,
                        !.fired = i,
                        !.before = [level |-> hist.level[i], lowest |-> hist.lowest[i],
                                    swept |-> hist.swept[i]]]
         ELSE IF i \in Rescored
         THEN [h EXCEPT !.lowest[i] = Lower(@, r.C[i].alarm_level),
                        !.swept[i] = Lower(@, r.C[i].alarm_level)]
         ELSE h,
         r, i + 1)

\* Traffic_loop returned r
HistAfterSweep(r) ==
  LET h == [hist EXCEPT !.fired = MAX_TRACKING_OBJECTS, !.before = NoHistory.before]
  IN  IF r.swept THEN HistSweepSlots(h, r, 0) ELSE h

\* another aircraft holds its position while the own aircraft flies towards
\* it and away again
SweepPackets == PacketsFrom({2}, {[latitude |-> 1500, altitude |-> 0]})

OwnLatitudes == {0, 900, 1200, 1400}

InitSweep == Boot(0)

NextSweep ==
  \/ Tick({TRAFFIC_UPDATE_INTERVAL}, MaxTicks) /\ UNCHANGED <<hist, scen, sentences, air>>
  \/ GNSS_loop(OwnLatitudes) /\ UNCHANGED <<hist, scen, sentences, air>>
  \/ \E p \in SweepPackets :
       /\ isValidFix
       /\ ParseData(p, 5000)
       /\ \E r \in {ParseDataResult(p, 5000)} : hist' = HistAfterParse(r)
       /\ UNCHANGED <<scen, sentences, air>>
  \/ /\ Traffic_loop
     /\ \E r \in {TrafficLoopResult} : hist' = HistAfterSweep(r)
     /\ UNCHANGED <<scen, sentences, air>>

SpecSweep == InitSweep /\ [][NextSweep]_vars

\* ------------------------------------------------------- claims: hysteresis
\* the last sweep fired a sound for a track that had sounded before
Resounded == hist.fired \in Slots /\ hist.before.level > ALARM_LEVEL_NONE

\* C1 (as stated): a track that sounded at level L sounds again only at a level
\* >= L+1, or after it was scored at <= L-1 and is now back at >= L
C1_ResoundAsStated ==
  Resounded =>
    \/ hist.level[hist.fired] >= hist.before.level + 1
    \/ /\ hist.before.lowest <= hist.before.level - 1
       /\ hist.level[hist.fired] >= hist.before.level

\* C1 (amended): a track that sounded at level L and kept its slot sounds again
\* only at a level >= L+2, or after a sweep scored it at some m <= L-1 and it is
\* now at >= m+2
C1_Resound ==
  Resounded =>
    \/ hist.level[hist.fired] >= hist.before.level + 2
    \/ /\ hist.before.swept <= hist.before.level - 1
       /\ hist.level[hist.fired] >= hist.before.swept + 2

\* a track sounds again below the level of its previous sound
C1_Witness == Resounded /\ hist.level[hist.fired] < hist.before.level

\* C9 (as stated): every slot's alarm_level and alert_level are within 0..4
C9_LevelsAsStated ==
  \A i \in Slots :
    /\ Container[i].alarm_level \in ALARM_LEVEL_NONE .. ALARM_LEVEL_URGENT
    /\ Container[i].alert_level \in ALARM_LEVEL_NONE .. ALARM_LEVEL_URGENT

\* C9 (amended): every slot's alarm_level is within 0..4 and its alert_level
\* within 0..5, the threshold left by a sound at URGENT
C9_Levels ==
  \A i \in Slots :
    /\ Container[i].alarm_level \in ALARM_LEVEL_NONE .. ALARM_LEVEL_URGENT
    /\ Container[i].alert_level \in ALARM_LEVEL_NONE .. (ALARM_LEVEL_URGENT + 1)

\* a sound was just fired for a track at URGENT
C9_Witness ==
  /\ notified = ALARM_LEVEL_URGENT
  /\ \E i \in Slots : Container[i].alarm_level = ALARM_LEVEL_URGENT
                      /\ Container[i].alert_level = ALARM_LEVEL_URGENT + 1

\* the slot i holds a track that a packet of the next step refreshes, or that
\* the next step's sweep rescores
RefreshedSlot(i) ==
  /\ outcome' = "refreshed"
  /\ \E p \in SweepPackets : p.raw = "ok" /\ Container[i].addr = p.addr

RescoredSlot(i) == outcome' \in {"sweep", "expired"} /\ i \in Rescored

Lowered(i) ==
  Container'[i].alarm_level < Container[i].alert_level =>
    Container'[i].alert_level = Container'[i].alarm_level + 1

\* C19: after every alarm update of a tracked aircraft, by the sweep's
\* Traffic_Update or by a packet that refreshes its slot in ParseData, a new
\* alarm_level below the slot's alert_level sets alert_level to alarm_level + 1
C19_AlertLevelLowered ==
  [][\A i \in Slots : (RefreshedSlot(i) \/ RescoredSlot(i)) => Lowered(i)]_vars

\* the sweep's own rescoring lowers the threshold
C19_SweepLowers ==
  [][\A i \in Slots : RescoredSlot(i) => Lowered(i)]_vars

\* a sweep has just lowered the threshold of a track that had sounded
C19_SweepLoweredSeen ==
  /\ outcome = "sweep"
  /\ \E i \in Slots : /\ hist.level[i] > ALARM_LEVEL_NONE
                      /\ hist.swept[i] < hist.level[i]
                      /\ Container[i].alert_level = Container[i].alarm_level + 1
                      /\ Container[i].alert_level < hist.level[i] + 1

\* --------------------------------------------------------------- expiration
\* two other aircraft are heard and then fall silent while the clock runs on
ExpirePackets == PacketsFrom({2, 3}, {[latitude |-> 1500, altitude |-> 0]})

InitExpire == Boot(0)

NextExpire ==
  \/ Tick({1, ENTRY_EXPIRATION_TIME}, MaxTicks) /\ UNCHANGED <<hist, scen, sentences, air>>
  \/ GNSS_loop({0}) /\ UNCHANGED <<hist, scen, sentences, air>>
  \/ Receive(ExpirePackets, {5000}) /\ UNCHANGED <<hist, scen, sentences, air>>
  \/ Traffic_loop /\ UNCHANGED <<hist, scen, sentences, air>>

SpecExpire == InitExpire /\ [][NextExpire]_vars

\* non-empty slots older than the expiration time
Overdue == {i \in Slots : Container[i].addr # 0
                          /\ now - Container[i].timestamp > ENTRY_EXPIRATION_TIME}

\* C4 (as stated): after any call of Traffic_loop no non-empty slot is older
\* than ENTRY_EXPIRATION_TIME
C4_ExpiredAfterAnyCall ==
  outcome \in {"gated", "sweep", "expired"} => Overdue = {}

\* C4 (amended): after a call of Traffic_loop that found it time to update the
\* traffic, no non-empty slot is older than ENTRY_EXPIRATION_TIME
C4_ExpiredAfterSweep ==
  outcome \in {"sweep", "expired"} => Overdue = {}

\* the sweep emptied an overdue slot and kept a younger track
C4_Witness ==
  /\ outcome = "expired"
  /\ \E i \in Slots : Container[i].addr # 0

\* ------------------------------------------- the LOW, CLOSE, LOW, IMPORTANT track
\* One other aircraft holds its position; the own aircraft moves so that the
\* track's alarm level follows Script.  Each alarm update is a GNSS fix and a
\* clock advance, then either a packet that refreshes the slot (ParseData) or
\* nothing, then the sweep.  scen.step counts the updates done, scen.sounded
\* holds the updates whose sweep called Sound_Notify.
Script == <<ALARM_LEVEL_LOW, ALARM_LEVEL_CLOSE, ALARM_LEVEL_LOW, ALARM_LEVEL_IMPORTANT>>

ScenPackets == PacketsFrom({2}, {[latitude |-> 1500, altitude |-> 0]})

ScenLatitudes == {600, 900, 1200}

InitScenario == Boot(0)

ScenMove ==
  /\ scen.phase = "move"
  /\ scen.step < Len(Script)
  /\ GNSS_loop(ScenLatitudes)
  /\ scen' = [scen EXCEPT !.phase = "tick"]
  /\ UNCHANGED <<hist, sentences, air>>

ScenTick ==
  /\ scen.phase = "tick"
  /\ Tick({TRAFFIC_UPDATE_INTERVAL}, Len(Script))
  /\ scen' = [scen EXCEPT !.phase = "update"]
  /\ UNCHANGED <<hist, sentences, air>>

ScenReceive ==
  /\ scen.phase = "update"
  /\ Receive(ScenPackets, {5000})
  /\ scen' = [scen EXCEPT !.phase = "sweep"]
  /\ UNCHANGED <<hist, sentences, air>>

ScenSweep ==
  /\ scen.phase \in {"update", "sweep"}
  /\ Traffic_loop
  /\ Container'[0].addr = 2
  /\ Container'[0].alarm_level = Script[scen.step + 1]
  /\ scen' = [step    |-> scen.step + 1,
              sounded |-> IF notified' # ALARM_LEVEL_NONE
                          THEN scen.sounded \cup {scen.step + 1} ELSE scen.sounded,
              phase   |-> "move"]
  /\ UNCHANGED <<hist, sentences, air>>

NextScenario == ScenMove \/ ScenTick \/ ScenReceive \/ ScenSweep

SpecScenario == InitScenario /\ [][NextScenario]_vars

\* C2: once the track has taken the alarm levels LOW, CLOSE, LOW, IMPORTANT,
\* each set by a packet or by the sweep and each followed by a sweep,
\* Sound_Notify has fired exactly twice: on the first LOW and on IMPORTANT
C2_TwoSounds == scen.step = Len(Script) => scen.sounded = {1, Len(Script)}

\* the script was completed with the sweep alone scoring the track after the
\* first packet, and the two sounds were fired
C2_SweepPathSounds ==
  /\ scen.step = Len(Script)
  /\ scen.sounded = {1, Len(Script)}

\* ------------------------------------------------------ address collisions
\* The own address is a device address, or an anonymous one generated at
\* millis() = 5000; packets arrive later, at a millis() that differs by 2^25,
\* from address 0, from both own addresses, from the ignored address 4 and
\* from another aircraft.
ANONYMOUS_PREFIX == 15

EarlierMillis == 5000

LaterMillis == 33559432

AddrPackets ==
  PacketsFrom({0, 1, 2, 4, generate_random_id(ADDR_TYPE_ANONYMOUS, EarlierMillis)},
              {[latitude |-> 1500, altitude |-> 0]})

InitAddr ==
  \E ignore_id \in {0, 4} :
    \/ Setup(Settings(ignore_id, ADDR_TYPE_FLARM, 0, TRUE), 1)
    \/ Setup(Settings(ignore_id, ADDR_TYPE_ANONYMOUS, 0, TRUE),
             generate_random_id(ADDR_TYPE_ANONYMOUS, EarlierMillis))

NextAddr ==
  \/ Tick({ENTRY_EXPIRATION_TIME + 1}, MaxJumps) /\ UNCHANGED <<hist, scen, sentences, air>>
  \/ GNSS_loop({0}) /\ UNCHANGED <<hist, scen, sentences, air>>
  \/ Receive(AddrPackets, {LaterMillis}) /\ UNCHANGED <<hist, scen, sentences, air>>
  \/ Traffic_loop /\ UNCHANGED <<hist, scen, sentences, air>>

SpecAddr == InitAddr /\ [][NextAddr]_vars

\* what every return of ParseData on a packet from the own address does
SelfCollisionEffect ==
  /\ Container' = Container
  /\ settings'.id_method = ADDR_TYPE_ANONYMOUS
  /\ ThisAircraft'.addr \div 1048576 = ANONYMOUS_PREFIX

\* C7 (as stated): a packet from the own address changes no slot, makes the id
\* method anonymous and replaces the own address by a 24-bit address with top
\* nibble 0xF that differs from the received one
C7_NewAddressDiffers ==
  [][outcome' = "self" =>
       SelfCollisionEffect /\ ThisAircraft'.addr # ThisAircraft.addr]_vars

\* C7 (amended): a packet from the own address changes no slot, makes the id
\* method anonymous and replaces the own address by a 24-bit address with top
\* nibble 0xF; it differs from the received one if that one has another top nibble
C7_NewAnonymousAddress ==
  [][outcome' = "self" =>
       /\ SelfCollisionEffect
       /\ ThisAircraft.addr \div 1048576 # ANONYMOUS_PREFIX
            => ThisAircraft'.addr # ThisAircraft.addr]_vars

\* a packet from the own address was received while the table held a track
C7_Witness ==
  /\ outcome = "self"
  /\ ThisAircraft.addr \div 1048576 = ANONYMOUS_PREFIX
  /\ settings.id_method = ADDR_TYPE_ANONYMOUS
  /\ \E i \in Slots : Container[i].addr # 0

\* C8: a slot whose address is 0 has distance, bearing, alt_diff, alarm_level
\* and alert_level zero
C8_EmptySlotZeroed ==
  \A i \in Slots :
    Container[i].addr = 0 =>
      /\ Container[i].distance = 0
      /\ Container[i].bearing = 0
      /\ Container[i].alt_diff = 0
      /\ Container[i].alarm_level = 0
      /\ Container[i].alert_level = 0

\* ------------------------------------------------------------- NMEA_Export
\* (alt_diff & 0xFFFFFF00) + 128 on a two's complement int
Fuzzify(alt_diff) == ((alt_diff \div 256) * 256) + 128

\* the anonymous id shown for a stealth target: 0xFFFFF0 + i
StealthId(i) == 16777200 + i

\* the high priority object before any candidate is seen
NoHP ==
  [alt_diff |-> 0, alarm_level |-> ALARM_LEVEL_NONE, adj_dist |-> 999999999,
   distance |-> 999999999, bearing |-> 0, addr |-> 0, stealth |-> FALSE]

\* whether the selection loop puts slot cip into the list of traffic to report
\* the inclusion test with the stealth suppression looking at the distance only
Reported_DistanceOnly(cip) ==
  LET stealth == cip.stealth \/ ThisAircraft.stealth
      show    == ~ (/\ stealth
                    /\ cip.alarm_level <= ALARM_LEVEL_CLOSE
                    /\ cip.distance > STEALTH_DISTANCE)
  IN  /\ cip.addr # 0
      /\ now - cip.timestamp <= EXPORT_EXPIRATION_TIME
      /\ \/ cip.alarm_level > ALARM_LEVEL_NONE
         \/ (cip.distance < ALARM_ZONE_NONE /\ Abs(cip.adj_alt_diff) < VERTICAL_VISIBILITY_RANGE)
         \/ cip.addr = settings.follow_id
      /\ show

\* the inclusion test without the age limit of EXPORT_EXPIRATION_TIME
Reported_Unaged(cip) ==
  LET stealth == cip.stealth \/ ThisAircraft.stealth
      show    == ~ (/\ stealth
                    /\ cip.alarm_level <= ALARM_LEVEL_CLOSE
                    /\ (cip.distance > STEALTH_DISTANCE \/ Abs(cip.alt_diff) > STEALTH_VERTICAL))
  IN  /\ cip.addr # 0
      /\ \/ cip.alarm_level > ALARM_LEVEL_NONE
         \/ (cip.distance < ALARM_ZONE_NONE /\ Abs(cip.adj_alt_diff) < VERTICAL_VISIBILITY_RANGE)
         \/ cip.addr = settings.follow_id
      /\ show

Reported(cip) ==
  LET stealth == cip.stealth \/ ThisAircraft.stealth
      show    == ~ (/\ stealth
                    /\ cip.alarm_level <= ALARM_LEVEL_CLOSE
                    /\ (cip.distance > STEALTH_DISTANCE \/ Abs(cip.alt_diff) > STEALTH_VERTICAL))
  IN  /\ cip.addr # 0
      /\ now - cip.timestamp <= EXPORT_EXPIRATION_TIME
      /\ \/ cip.alarm_level > ALARM_LEVEL_NONE
         \/ (cip.distance < ALARM_ZONE_NONE /\ Abs(cip.adj_alt_diff) < VERTICAL_VISIBILITY_RANGE)
         \/ cip.addr = settings.follow_id
      /\ show

\* the while loop that looks for the list entry to insert cip before:
\* <<next, previous>> when it stops
RECURSIVE FindPlace(_, _, _, _)
FindPlace(E, next, previous, cip) ==
  IF next >= E.size THEN <<next, previous>>
  ELSE IF /\ E.C[next].alarm_level <= cip.alarm_level
          /\ E.C[next].addr # settings.follow_id
          /\ E.C[next].adj_distance >= cip.adj_distance
  THEN <<next, previous>>
  ELSE FindPlace(E, E.C[next].next, next, cip)

\* mutant: the first slot put into the list keeps the next field it had
Enlist_StaleNext(E, i) ==
  IF E.total_objects = 0
  THEN [E EXCEPT !.head = i, !.total_objects = 1]
  ELSE LET w == FindPlace(E, E.head, E.size, E.C[i])
       IN  IF E.head = w[1]
           THEN [E EXCEPT !.C[i].next = w[1], !.head = i, !.total_objects = @ + 1]
           ELSE [E EXCEPT !.C[i].next = w[1], !.C[w[2]].next = i, !.total_objects = @ + 1]

\* slot i is put into the list E.head, E.C[..].next of E.total_objects entries
Enlist(E, i) ==
  IF E.total_objects = 0
  THEN [E EXCEPT !.head = i, !.C[i].next = E.size, !.total_objects = 1]
  ELSE LET w == FindPlace(E, E.head, E.size, E.C[i])
       IN  IF E.head = w[1]
           THEN [E EXCEPT !.C[i].next = w[1], !.head = i, !.total_objects = @ + 1]
           ELSE [E EXCEPT !.C[i].next = w[1], !.C[w[2]].next = i, !.total_objects = @ + 1]

\* alarm or close traffic is treated as highest priority
Prioritize(E, i) ==
  LET cip == E.C[i]
      stealth == cip.stealth \/ ThisAircraft.stealth
  IN  IF \/ cip.alarm_level > E.HP.alarm_level
         \/ (cip.alarm_level = E.HP.alarm_level /\ cip.adj_distance <= E.HP.adj_dist)
      THEN [E EXCEPT !.HP = [alt_diff |-> cip.alt_diff, alarm_level |-> cip.alarm_level,
                             adj_dist |-> cip.adj_distance, distance |-> cip.distance,
                             bearing |-> cip.bearing,
                             addr |-> IF stealth THEN StealthId(i) ELSE cip.addr,
                             stealth |-> stealth]]
      ELSE E

\* the selection loop over the slots from i on
RECURSIVE Select(_, _)
Select(E, i) ==
  IF i >= E.size THEN E
  ELSE IF Reported(E.C[i]) THEN Select(Prioritize(Enlist(E, i), i), i + 1)
  ELSE Select(E, i + 1)

\* the level sent to NMEA: CLOSE, added between NONE and LOW, is bypassed
SentLevel(alarm_level) ==
  IF alarm_level > ALARM_LEVEL_NONE THEN alarm_level - 1 ELSE alarm_level

\* mutant: the data of a stealth target is masked at every alarm level
PFLAA_MaskAlways(E, k, i) ==
  LET fop     == E.C[k]
      stealth == fop.stealth \/ ThisAircraft.stealth
      masked  == stealth
  IN  [alarm_level |-> SentLevel(fop.alarm_level),
       alt_diff    |-> IF masked THEN Fuzzify(fop.alt_diff) ELSE fop.alt_diff,
       id          |-> IF stealth THEN StealthId(i) ELSE fop.addr,
       course      |-> IF masked THEN 0 ELSE fop.course,
       speed       |-> IF masked THEN 0 ELSE (fop.speed * 514) \div 1000,
       masked      |-> masked,
       slot        |-> k]

\* the $PFLAA sentence for list entry number i, which is slot k
PFLAA(E, k, i) ==
  LET fop     == E.C[k]
      stealth == fop.stealth \/ ThisAircraft.stealth
      masked  == stealth /\ fop.alarm_level <= ALARM_LEVEL_CLOSE
  IN  [alarm_level |-> SentLevel(fop.alarm_level),
       alt_diff    |-> IF masked THEN Fuzzify(fop.alt_diff) ELSE fop.alt_diff,
       id          |-> IF stealth THEN StealthId(i) ELSE fop.addr,
       course      |-> IF masked THEN 0 ELSE fop.course,
       speed       |-> IF masked THEN 0 ELSE (fop.speed * 514) \div 1000,
       masked      |-> masked,
       slot        |-> k]

\* the emission loop from list entry number i on, which is slot k
RECURSIVE Emit(_, _, _, _)
Emit(E, k, i, out) ==
  IF ~ (i < E.total_objects /\ i < E.cap) THEN out
  ELSE LET out1 == IF E.total_objects < E.cap \/ E.C[k].addr # E.HP.addr
                   THEN Append(out, PFLAA(E, k, i)) ELSE out
       IN  IF E.C[k].next >= E.cap THEN out1
           ELSE Emit(E, E.C[k].next, i + 1, out1)

\* the high priority object named in $PFLAU: the one found by the selection
\* loop, or else the top of the sorted list
HighPriority(E) ==
  LET cip == E.C[E.head]
  IN  IF E.total_objects > 0 /\ E.HP.addr = 0 /\ cip.addr # 0
      THEN [E.HP EXCEPT !.bearing = cip.bearing, !.alt_diff = cip.alt_diff,
                        !.alarm_level = cip.alarm_level, !.distance = cip.distance,
                        !.addr = IF cip.stealth \/ ThisAircraft.stealth
                                 THEN StealthId(0) ELSE cip.addr,
                        !.stealth = cip.stealth \/ ThisAircraft.stealth]
      ELSE E.HP

\* the one $PFLAU sentence
PFLAU(E) ==
  LET HP == HighPriority(E)
  IN  IF HP.addr # 0
      THEN [total_objects |-> E.total_objects,
            alarm_level   |-> SentLevel(HP.alarm_level),
            alt_diff      |-> IF HP.stealth /\ HP.alarm_level <= ALARM_LEVEL_CLOSE
                              THEN Fuzzify(HP.alt_diff) ELSE HP.alt_diff,
            distance      |-> HP.distance,
            addr          |-> HP.addr]
      ELSE [total_objects |-> 0, alarm_level |-> ALARM_LEVEL_NONE, alt_diff |-> 0,
            distance |-> 0, addr |-> 0]

\* mutant: $PFLAU is sent only when it names a target
NMEAExportResult_TargetOnly ==
  LET E0 == [C |-> Container, head |-> 0, total_objects |-> 0, HP |-> NoHP,
             size |-> MAX_TRACKING_OBJECTS, cap |-> MAX_NMEA_OBJECTS]
      E  == IF isValidFix THEN Select(E0, 0) ELSE E0
      beat == sentences.beatcount + 1
  IN  [C |-> E.C,
       S |-> [pflaa     |-> IF isValidFix THEN Emit(E, E.head, 0, << >>) ELSE << >>,
              pflau     |-> IF PFLAU(E).addr # 0 THEN << PFLAU(E) >> ELSE << >>,
              psrfh     |-> ~ (beat < 10),
              beatcount |-> IF beat < 10 THEN beat ELSE 0]]

\* one call of NMEA_Export with output enabled: the table with its next fields,
\* the sentences, the heartbeat counter
\* mutant: the heartbeat count runs to 11
ExportSentences_LateBeat(E, beat) ==
  [C |-> E.C,
   S |-> [pflaa     |-> IF isValidFix THEN Emit(E, E.head, 0, << >>) ELSE << >>,
          pflau     |-> << PFLAU(E) >>,
          psrfh     |-> ~ (beat <= 10),
          beatcount |-> IF beat <= 10 THEN beat ELSE 0],
   head |-> E.head, total_objects |-> E.total_objects, HP |-> E.HP]

\* the sentences of one export, given the selection E and the heartbeat count
ExportSentences(E, beat) ==
  [C |-> E.C,
   S |-> [pflaa     |-> IF isValidFix THEN Emit(E, E.head, 0, << >>) ELSE << >>,
          pflau     |-> << PFLAU(E) >>,
          psrfh     |-> ~ (beat < 10),
          beatcount |-> IF beat < 10 THEN beat ELSE 0],
   head |-> E.head, total_objects |-> E.total_objects, HP |-> E.HP]

\* the selection loop over a table of the given size, run only with a fix
Selection(E0) == IF isValidFix THEN Select(E0, 0) ELSE E0

\* NMEA_Export in a build with a table of size slots and at most cap $PFLAA
ExportResult(size, cap) ==
  ExportSentences(Selection([C |-> Container, head |-> 0, total_objects |-> 0, HP |-> NoHP,
                             size |-> size, cap |-> cap]),
                  sentences.beatcount + 1)

NMEAExportResult == ExportResult(MAX_TRACKING_OBJECTS, MAX_NMEA_OBJECTS)

NMEA_Export ==
  /\ IF ~ settings.nmea_l
     THEN /\ sentences' = [NoSentences EXCEPT !.beatcount = sentences.beatcount]
          /\ outcome' = "silent"
          /\ UNCHANGED Container
     ELSE \E r \in {NMEAExportResult} :
            /\ Container' = r.C
            /\ sentences' = r.S
            /\ outcome' = "export"
  /\ notified' = ALARM_LEVEL_NONE
  /\ UNCHANGED <<now, ticks, ThisAircraft, settings, UpdateTrafficTimeMarker>>

\* the table fills with two other aircraft, near or far, one of which may be
\* the followed one, and is exported
ExportPackets ==
  PacketsFrom({2, 3}, {[latitude |-> 600, altitude |-> 0], [latitude |-> 1500, altitude |-> 0]})

InitExport ==
  \E follow_id \in {0, 3}, nmea_l \in BOOLEAN :
    Setup(Settings(0, ADDR_TYPE_FLARM, follow_id, nmea_l), 1)

NextExport ==
  \/ Tick({EXPORT_EXPIRATION_TIME + 1}, MaxJumps) /\ UNCHANGED <<hist, scen, sentences, air>>
  \/ GNSS_loop({0}) /\ UNCHANGED <<hist, scen, sentences, air>>
  \/ Receive(ExportPackets, {5000}) /\ UNCHANGED <<hist, scen, sentences, air>>
  \/ NMEA_Export /\ UNCHANGED <<hist, scen, air>>

SpecExport == InitExport /\ [][NextExport]_vars

\* ---------------------------------------------------------- claims: export
\* slot a belongs before slot b in the sorted sequence
Outranks(a, b) ==
  \/ a.addr = settings.follow_id /\ b.addr # settings.follow_id
  \/ /\ (a.addr = settings.follow_id) = (b.addr = settings.follow_id)
     /\ \/ a.alarm_level > b.alarm_level
        \/ a.alarm_level = b.alarm_level /\ a.adj_distance < b.adj_distance

\* C10: the $PFLAA sentences of one NMEA_Export call are in sorted order: the
\* followed target first, then by descending alarm level, then by ascending
\* adj_distance
C10_PFLAASorted ==
  outcome = "export" =>
    \A j, k \in 1 .. Len(sentences.pflaa) :
      j < k => ~ Outranks(Container[sentences.pflaa[k].slot],
                          Container[sentences.pflaa[j].slot])

StealthPackets ==
  PacketsFrom({2}, {[latitude |-> 600, altitude |-> 0], [latitude |-> 1500, altitude |-> 280]})
  \cup { [p EXCEPT !.stealth = TRUE] :
           p \in { q \in PacketsFrom({2}, {[latitude |-> 600, altitude |-> 0],
                                          [latitude |-> 1500, altitude |-> 280]})
                       \cup PacketsFrom({3}, {[latitude |-> 600, altitude |-> 0],
                                             [latitude |-> 600, altitude |-> 400],
                                             [latitude |-> 2500, altitude |-> 0]}) :
                    q.raw = "ok" } }

InitStealth == Boot(0)

NextStealth ==
  \/ Tick({EXPORT_EXPIRATION_TIME + 1}, MaxJumps) /\ UNCHANGED <<hist, scen, sentences, air>>
  \/ GNSS_loop({0}) /\ UNCHANGED <<hist, scen, sentences, air>>
  \/ Receive(StealthPackets, {5000}) /\ UNCHANGED <<hist, scen, sentences, air>>
  \/ NMEA_Export /\ UNCHANGED <<hist, scen, air>>

SpecStealth == InitStealth /\ [][NextStealth]_vars

\* C11: whenever one NMEA_Export call emits at least one $PFLAA sentence and a
\* $PFLAU sentence that names a target, the address in $PFLAU is the address
\* in the first $PFLAA sentence, anonymised ids of stealth targets included
C11_PFLAUNamesFirstPFLAA ==
  (outcome = "export" /\ Len(sentences.pflaa) >= 1 /\ sentences.pflau[1].addr # 0)
    => sentences.pflau[1].addr = sentences.pflaa[1].id

\* the stealth targets of the table that an export with fix looks at
StealthSlots ==
  { i \in Slots : /\ Container[i].addr # 0
                  /\ now - Container[i].timestamp <= EXPORT_EXPIRATION_TIME
                  /\ (Container[i].stealth \/ ThisAircraft.stealth) }

\* the $PFLAA sentences sent for slot i
SentFor(i) ==
  { sentences.pflaa[k] : k \in {j \in 1 .. Len(sentences.pflaa) : sentences.pflaa[j].slot = i} }

Sender(addr, timestamp, latitude) ==
  [addr |-> addr, timestamp |-> timestamp, latitude |-> latitude, altitude |-> 0,
   geoid_separation |-> 0, vs |-> 0, speed |-> 80, course |-> 180, stealth |-> FALSE]

\* what ParseData sees of the packet after protocol_decode
AsPacket(r) ==
  [raw |-> IF r.rval THEN "ok" ELSE "bad", addr |-> r.fop.addr,
   latitude |-> r.fop.latitude, altitude |-> r.fop.altitude, vs |-> r.fop.vs,
   speed |-> r.fop.speed, course |-> r.fop.course, stealth |-> r.fop.stealth]

\* the packet on the air is received: ParseData with protocol_decode = legacy_decode
ReceiveAir(clock) ==
  /\ isValidFix
  /\ air.pkt # << >>
  /\ \E r \in {legacy_decode(air.pkt, ThisAircraft, EmptyFO)}, millis \in clock :
       /\ ParseData(AsPacket(r), millis)
       /\ air' = [air EXCEPT !.pkt = << >>,
                             !.rx = [rval |-> r.rval, pkt |-> r.pkt, fop |-> r.fop,
                                     timestamp |-> ThisAircraft.timestamp]]

\* the devices heard: an ordinary one, one with the own address, one with the
\* ignored address; their clocks agree with the own clock, are a second
\* ahead, or are in the next 64 second window
IgnoredAddr == 7

SendersAt(t) ==
  { Sender(addr, t + skew, 600) : addr \in {1, 2, IgnoredAddr}, skew \in {0, 1, 64} }

\* the packet each of them encodes, at any time of the run
Encoded ==
  [snd \in UNION { SendersAt(t) : t \in StartTime .. StartTime + MaxJumps } |->
     legacy_encode(snd, ADDR_TYPE_FLARM)]

\* another device encodes its packet and sends it
Transmit(senders) ==
  \E snd \in senders :
    \E e \in {Encoded[snd]} :
      /\ air' = [NoPacket EXCEPT !.pkt = e.pkt, !.plain = e.plain,
                                 !.sender = [addr |-> snd.addr, timestamp |-> snd.timestamp]]
      /\ outcome' = "transmit"
      /\ notified' = ALARM_LEVEL_NONE
      /\ UNCHANGED <<now, ticks, ThisAircraft, settings, Container, UpdateTrafficTimeMarker>>

InitCodec == Setup(Settings(IgnoredAddr, ADDR_TYPE_FLARM, 0, TRUE), 1)

NextCodec ==
  \/ Tick({1}, MaxJumps) /\ UNCHANGED <<hist, scen, sentences, air>>
  \/ GNSS_loop({0}) /\ UNCHANGED <<hist, scen, sentences, air>>
  \/ Transmit(SendersAt(now)) /\ UNCHANGED <<hist, scen, sentences>>
  \/ ReceiveAir({5000}) /\ UNCHANGED <<hist, scen, sentences>>

SpecCodec == InitCodec /\ [][NextCodec]_vars

\* ------------------------------------------------------------ claims: codec
\* an output record that holds data of an earlier packet
UsedFO == [EmptyFO EXCEPT !.addr = 9, !.timestamp = 990, !.latitude = 5, !.alert_level = 3]

\* C14: legacy_decode returns false exactly when the decrypted packet has odd
\* total bit parity, and then leaves the output record as it was; for a packet of
\* even parity whose address is settings.ignore_id or the own address it returns
\* true with only the address field of the output record set, and ParseData
\* then leaves the table as it was
C14_DecodeContract ==
  [][ (air.pkt # << >> /\ air'.pkt = << >>) =>
        \A fop \in {EmptyFO, UsedFO} :
          LET r    == legacy_decode(air.pkt, ThisAircraft, fop)
              odd  == PktParity(r.pkt) = 1
              addr == Unpack(r.pkt).addr
          IN  /\ r.rval = ~ odd
              /\ odd => (r.fop = fop /\ Container' = Container /\ outcome' = "parity")
              /\ (~ odd /\ (addr = settings.ignore_id \/ addr = ThisAircraft.addr))
                    => /\ r.rval
                       /\ r.fop = [fop EXCEPT !.addr = addr]
                       /\ Container' = Container
                       /\ outcome' \in {"ignored", "self"} ]_vars

\* a packet of the ignored address was decoded and dropped
C14_Witness ==
  /\ air.rx.pkt # << >>
  /\ air.rx.rval
  /\ air.rx.fop = [EmptyFO EXCEPT !.addr = IgnoredAddr]
  /\ outcome = "ignored"

\* the packet pkt decrypted with the key for the timestamp and its address
Decrypted(pkt, timestamp) ==
  <<pkt[1]>> \o btea(SubSeq(pkt, 2, 6), -5,
                     make_key(timestamp, (Unpack(pkt).addr * 256) % 16777216))

\* C15: the plaintext of every packet that legacy_encode produces has parity 0
\* over its 24 bytes, and decrypting the packet with the key for the same
\* timestamp and address gives that plaintext back, so that it passes the
\* parity check of legacy_decode
C15_EncodedParityEven ==
  air.plain # << >> =>
    /\ PktParity(air.plain) = 0
    /\ air.pkt # << >> =>
         /\ Decrypted(air.pkt, air.sender.timestamp) = air.plain
         /\ legacy_decode(air.pkt, [ThisAircraft EXCEPT !.timestamp = air.sender.timestamp],
                          EmptyFO).rval
    /\ (air.rx.pkt # << >> /\ air.rx.timestamp = air.sender.timestamp) =>
         (air.rx.rval /\ air.rx.pkt = air.plain)

\* a packet was received by a device whose clock agrees with the sender's
C15_Witness ==
  /\ air.rx.pkt # << >>
  /\ air.rx.timestamp = air.sender.timestamp
  /\ air.rx.rval
  /\ air.rx.pkt = air.plain

\* the key for the sender's address at the time ts
KeyAt(ts) == make_key(ts, (air.sender.addr * 256) % 16777216)

SameWindow(ts1, ts2) == ts1 \div 64 = ts2 \div 64

\* C16 as stated: a packet encoded with one timestamp and decoded with a
\* different timestamp of the same 64 second window is decrypted with a
\* different key than it was encrypted with
C16_KeyDiffersAsStated ==
  (/\ air.rx.pkt # << >>
   /\ air.rx.timestamp # air.sender.timestamp
   /\ SameWindow(air.rx.timestamp, air.sender.timestamp))
    => KeyAt(air.rx.timestamp) # KeyAt(air.sender.timestamp)

\* C16: a packet decoded with a timestamp of the 64 second window it was
\* encoded in is decrypted with the key it was encrypted with and passes the
\* parity check; decoded with a timestamp of another window it is decrypted
\* with a different key and does not give the plaintext back
C16_KeyPerWindow ==
  air.rx.pkt # << >> =>
    IF SameWindow(air.rx.timestamp, air.sender.timestamp)
    THEN /\ KeyAt(air.rx.timestamp) = KeyAt(air.sender.timestamp)
         /\ air.rx.rval
         /\ air.rx.pkt = air.plain
    ELSE /\ KeyAt(air.rx.timestamp) # KeyAt(air.sender.timestamp)
         /\ air.rx.pkt # air.plain

\* a packet was decoded a second off the sender's clock, in the same window
C16_Witness ==
  /\ air.rx.pkt # << >>
  /\ air.rx.timestamp # air.sender.timestamp
  /\ SameWindow(air.rx.timestamp, air.sender.timestamp)
  /\ air.rx.rval

\* ------------------------------------------------------ position round trip
\* positions in 1e-7 degrees: references on the equator, at 60 degrees north,
\* in the south west, and on both sides of the 180 degree meridian
RefPositions ==
  { [lat |-> la, lon |-> lo] :
      la \in {0, 10, -10, 600000000, -337654321},
      lo \in {0, 80000000, -1234567890, 1799999000, -1799999000} }

\* 1e-7 degrees of longitude per metre to the east at the latitude lat
E7PerMetreEast(lat) == IF Abs(lat) >= 600000000 THEN 2 * E7PerMetre ELSE E7PerMetre

\* a longitude brought back into -180 .. 180 degrees
WrapLon(lon) ==
  IF lon > 1800000000 THEN (lon - 1800000000) - 1800000000
  ELSE IF lon < -1800000000 THEN (lon + 1800000000) + 1800000000
  ELSE lon

\* the positions up to 9 km north, south, east or west of a reference
OwnPositions ==
  { [lat |-> ref.lat + (dy * E7PerMetre), lon |-> WrapLon(ref.lon + (dx * E7PerMetreEast(ref.lat)))] :
      ref \in RefPositions, dy \in {-9000, -1, 0, 1, 9000}, dx \in {-9000, -1, 0, 1, 9000} }

\* own position x is within 9 km of the reference position ref
Within9km(x, ref) ==
  LET dlat == Abs(x.lat - ref.lat)
      gap  == Abs(RoundShift7(x.lon) - RoundShift7(ref.lon))
      dlon == MinOf({gap, 28125000 - gap}) * 128
  IN  /\ dlat <= 9000 * E7PerMetre
      /\ dlon <= (9000 * E7PerMetreEast(ref.lat)) + 128

\* legacy_encode packs the own position into the packet
EncodePosition(positions) ==
  \E x \in positions :
    /\ air' = [own |-> x,
               pkt |-> [lat |-> EncodeCoord(x.lat, 19), lon |-> EncodeCoord(x.lon, 20)],
               ref |-> [lat |-> 0, lon |-> 0],
               fop |-> [lat |-> 0, lon |-> 0],
               decoded |-> FALSE]
    /\ outcome' = "transmit"
    /\ UNCHANGED <<now, ticks, ThisAircraft, settings, Container, UpdateTrafficTimeMarker,
                   notified, hist, scen, sentences>>

\* legacy_decode of a device within 9 km unfolds it around its own position
DecodePosition(positions) ==
  /\ outcome = "transmit"
  /\ \E ref \in positions :
       /\ Within9km(air.own, ref)
       /\ air' = [air EXCEPT !.ref = ref,
                             !.fop = [lat |-> DecodeCoord(air.pkt.lat, ref.lat, 19),
                                      lon |-> DecodeCoord(air.pkt.lon, ref.lon, 20)],
                             !.decoded = TRUE]
  /\ outcome' = "decoded"
  /\ UNCHANGED <<now, ticks, ThisAircraft, settings, Container, UpdateTrafficTimeMarker,
                 notified, hist, scen, sentences>>

InitPosition == Boot(0)

NextPosition ==
  \/ EncodePosition(OwnPositions)
  \/ DecodePosition(RefPositions)

SpecPosition == InitPosition /\ [][NextPosition]_vars

\* y is x rounded to the nearest multiple of 128
IsRounded(y, x) ==
  /\ y % 128 = 0
  /\ Abs((y \div 128) - (x \div 128)) <= 1
  /\ Abs(y - x) <= 64

\* C17: for every own position within 9 km of the reference position the
\* decoded latitude and longitude are the original ones rounded to the nearest
\* multiple of 128
C17_PositionRoundTrip ==
  outcome = "decoded" =>
    /\ IsRounded(air.fop.lat, air.own.lat)
    /\ IsRounded(air.fop.lon, air.own.lon)

\* ------------------------------------------------- altitude adjustment
\* relative altitudes around the slack and the separation limits, vertical
\* speeds of both aircraft in feet per minute, plausible and not
AltDiffs == {-700, -312, -61, -60, -59, -30, -1, 0, 1, 30, 59, 60, 61, 312, 700}

VerticalSpeeds == {-1200, -600, -20, 0, 20, 600, 1200}

\* Adj_alt_diff is applied to a target as Traffic_Update has left it
Adjust(alt_diffs, speeds) ==
  \E d \in alt_diffs, v \in speeds, w \in speeds :
    /\ air' = [this_aircraft |-> [ThisAircraft EXCEPT !.vs = w],
               fop           |-> [EmptyFO EXCEPT !.addr = 2, !.alt_diff = d, !.vs = v],
               adj           |-> Adj_alt_diff([ThisAircraft EXCEPT !.vs = w],
                                              [EmptyFO EXCEPT !.addr = 2, !.alt_diff = d, !.vs = v])]
    /\ outcome' = "adjusted"
    /\ UNCHANGED <<now, ticks, ThisAircraft, settings, Container, UpdateTrafficTimeMarker,
                   notified, hist, scen, sentences>>

InitAdjust == Boot(0)

NextAdjust == Adjust(AltDiffs, VerticalSpeeds)

SpecAdjust == InitAdjust /\ [][NextAdjust]_vars

\* C18: the adjusted altitude difference is never larger in magnitude than the
\* altitude difference of the target
C18_AdjustedNotLarger ==
  outcome = "adjusted" => Abs(air.adj) <= Abs(air.fop.alt_diff)

\* the adjustment moved the difference towards zero by the vertical speed and
\* the slack, without reaching zero
C18_Witness ==
  /\ outcome = "adjusted"
  /\ air.fop.alt_diff = 312
  /\ air.fop.vs - air.this_aircraft.vs = -600
  /\ air.adj = 222

\* --------------------------------------------------- the sweep and its sound
\* two other aircraft hold their positions 300 m apart while the own aircraft
\* flies towards them and away again; the clock advances by the sweep interval
\* or past the expiration time
SoundPackets ==
  PacketsFrom({2}, {[latitude |-> 1500, altitude |-> 0]})
    \cup PacketsFrom({3}, {[latitude |-> 1200, altitude |-> 0]})

SoundLatitudes == {0, 900}

InitSound == Boot(0)

NextSound ==
  \/ Tick({TRAFFIC_UPDATE_INTERVAL, ENTRY_EXPIRATION_TIME + 1}, MaxTicks)
       /\ UNCHANGED <<hist, scen, sentences, air>>
  \/ GNSS_loop(SoundLatitudes) /\ UNCHANGED <<hist, scen, sentences, air>>
  \/ Receive(SoundPackets, {5000}) /\ UNCHANGED <<hist, scen, sentences, air>>
  \/ Traffic_loop /\ UNCHANGED <<hist, scen, sentences, air>>

SpecSound == InitSound /\ [][NextSound]_vars

\* the next step is a sweep of Traffic_loop
Sweeping == outcome' \in {"sweep", "expired"}

\* the alert_level of slot i when the sweep looks for the highest alarm: the
\* one before the sweep, lowered if the sweep rescored the slot below it
Threshold(i) ==
  IF i \in Rescored /\ Container'[i].alarm_level < Container[i].alert_level
  THEN Container'[i].alarm_level + 1
  ELSE Container[i].alert_level

\* the non-empty, unexpired slots whose alarm is above CLOSE and above their
\* alert_level
Due ==
  {i \in Slots : /\ Container[i].addr # 0
                 /\ ThisAircraft.timestamp - Container[i].timestamp <= ENTRY_EXPIRATION_TIME
                 /\ Container'[i].alarm_level > ALARM_LEVEL_CLOSE
                 /\ Container'[i].alarm_level > Threshold(i)}

\* C20: in each sweep of Traffic_loop, Sound_Notify is called if and only if
\* some non-empty, unexpired slot has alarm_level > CLOSE and alarm_level >
\* alert_level; the level passed is the maximum alarm_level over those slots,
\* the slot whose level is emitted gets alert_level = alarm_level + 1, and no
\* other slot's alert_level is raised
C20_SoundOnSweep ==
  [][Sweeping =>
       /\ (notified' # ALARM_LEVEL_NONE) <=> (Due # {})
       /\ Due # {} =>
            /\ notified' = MaxOf({Container'[i].alarm_level : i \in Due})
            /\ \E m \in Due :
                 /\ Container'[m].alarm_level = notified'
                 /\ Container'[m].alert_level = notified' + 1
                 /\ \A i \in Slots \ {m} :
                      i \notin Cleared => Container'[i].alert_level = Threshold(i)
       /\ Due = {} =>
            \A i \in Slots : i \notin Cleared => Container'[i].alert_level = Threshold(i)
    ]_vars

\* a sweep has fired a sound for the higher of two alarms above CLOSE, and
\* the slot of the lower one is still due
C20_Witness ==
  /\ outcome = "sweep"
  /\ notified > ALARM_LEVEL_LOW
  /\ \E m, i \in Slots :
       /\ Container[m].addr # 0 /\ Container[i].addr # 0
       /\ Container[m].alarm_level = notified
       /\ Container[m].alert_level = notified + 1
       /\ Container[i].alarm_level > ALARM_LEVEL_CLOSE
       /\ Container[i].alarm_level < notified
       /\ Container[i].alert_level < Container[i].alarm_level

\* ------------------------------------------------ refreshing a tracked slot
\* one other aircraft 600 m north is heard again and again, on changing
\* courses and at changing millis(); the sweep sounds its alarm in between
RefreshPackets ==
  { [raw |-> "ok", addr |-> 2, latitude |-> 600, altitude |-> 0, vs |-> 0,
     speed |-> 80, course |-> c, stealth |-> FALSE] : c \in {90, 270} }

RefreshMillis == {5000, 6000}

InitRefresh == Boot(0)

NextRefresh ==
  \/ Tick({TRAFFIC_UPDATE_INTERVAL}, MaxTicks) /\ UNCHANGED <<hist, scen, sentences, air>>
  \/ GNSS_loop({0, 900}) /\ UNCHANGED <<hist, scen, sentences, air>>
  \/ Receive(RefreshPackets, RefreshMillis) /\ UNCHANGED <<hist, scen, sentences, air>>
  \/ Traffic_loop /\ UNCHANGED <<hist, scen, sentences, air>>

SpecRefresh == InitRefresh /\ [][NextRefresh]_vars

\* the slots that the packet of the next step refreshes
Refreshing ==
  {i \in Slots : /\ outcome' = "refreshed"
                 /\ \E p \in RefreshPackets : Container[i].addr = p.addr}

\* the incoming records: what ParseData has decoded and scored
Incoming ==
  {Traffic_Update(settings.alarm, ThisAircraft, [Decoded(p) EXCEPT !.gnsstime_ms = ms]) :
     p \in RefreshPackets, ms \in RefreshMillis}

\* C21 (as stated): a packet whose address matches a slot overwrites the slot
\* with the incoming record, except that alert, alert_level, prevcourse and
\* prevtime_ms keep the values they had in the slot
C21_HistoryKeptAsStated ==
  [][\A i \in Refreshing :
       \E fo \in Incoming :
         Container'[i] = [fo EXCEPT !.alert = Container[i].alert,
                                    !.alert_level = Container[i].alert_level,
                                    !.prevcourse = Container[i].prevcourse,
                                    !.prevtime_ms = Container[i].prevtime_ms]]_vars

\* C21 (amended): a packet whose address matches a slot overwrites the slot
\* with the incoming record, except that alert and alert_level keep the values
\* they had in the slot, and prevcourse and prevtime_ms take the course and
\* the gnsstime_ms that the slot had
C21_HistoryShifted ==
  [][\A i \in Refreshing :
       \E fo \in Incoming :
         Container'[i] = [fo EXCEPT !.alert = Container[i].alert,
                                    !.alert_level = Container[i].alert_level,
                                    !.prevcourse = Container[i].course,
                                    !.prevtime_ms = Container[i].gnsstime_ms]]_vars

\* a track that has sounded was refreshed on a new course at a later millis(),
\* after an earlier refresh
C21_Witness ==
  /\ outcome = "refreshed"
  /\ \E i \in Slots :
       /\ Container[i].alert = TRAFFIC_ALERT_SOUND
       /\ Container[i].alert_level > ALARM_LEVEL_NONE
       /\ Container[i].prevcourse \notin {0, Container[i].course}
       /\ Container[i].prevtime_ms \notin {0, Container[i].gnsstime_ms}

\* ------------------------------------------- claims: finding a slot (table)
\* the packet is from another aircraft that has no slot yet
Untracked(p) ==
  /\ p.raw = "ok"
  /\ p.addr \notin {settings.ignore_id, ThisAircraft.addr}
  /\ \A i \in Slots : Container[i].addr # p.addr

\* the record that ParseData makes of the packet p at millis() = 5000
Scored(p) ==
  Traffic_Update(settings.alarm, ThisAircraft, [Decoded(p) EXCEPT !.gnsstime_ms = 5000])

\* slots that are empty, or whose track has expired
Free ==
  {i \in Slots : \/ Container[i].addr = 0
                 \/ now - Container[i].timestamp > ENTRY_EXPIRATION_TIME}

\* the table C is the present one with slot i overwritten by the record fo
OnlyWritten(C, i, fo) ==
  /\ C[i] = fo
  /\ \A j \in Slots \ {i} : C[j] = Container[j]

\* C22: an untracked address that finds an empty or expired slot is stored in
\* the lowest-indexed such slot, and every other slot, so every unexpired
\* track, is left as it was
C22_InsertFirstFree ==
  \A p \in TablePackets :
    (Untracked(p) /\ Free # {}) =>
      OnlyWritten(ParseDataResult(p, 5000).C, MinOf(Free), Scored(p))

\* a new track was just stored over an expired one in slot 0 while the
\* expired track of slot 1 is still there
C22_Witness ==
  /\ outcome = "inserted"
  /\ Container[0].timestamp = now
  /\ Container[1].addr # 0
  /\ now - Container[1].timestamp > ENTRY_EXPIRATION_TIME

\* slots whose alarm level is strictly below that of the incoming record
Weaker(p) == {i \in Slots : Container[i].alarm_level < Scored(p).alarm_level}

MaxAdjDistance == MaxOf({AdjDistance(ThisAircraft, Container[i]) : i \in Slots})

FarthestSlot ==
  MinOf({i \in Slots : AdjDistance(ThisAircraft, Container[i]) = MaxAdjDistance})

\* C24: an untracked address that finds the table full of unexpired tracks, none
\* of lower alarm level, replaces the slot of the largest adjusted distance if
\* and only if its own adjusted distance is strictly less and its alarm level
\* is not below that slot's; otherwise no slot changes
C24_ReplaceFarthest ==
  \A p \in TablePackets :
    (Untracked(p) /\ Free = {} /\ Weaker(p) = {}) =>
      IF /\ AdjDistance(ThisAircraft, Scored(p)) < MaxAdjDistance
         /\ Scored(p).alarm_level >= Container[FarthestSlot].alarm_level
      THEN OnlyWritten(ParseDataResult(p, 5000).C, FarthestSlot, Scored(p))
      ELSE ParseDataResult(p, 5000).C = Container

\* a nearer track of the same alarm level has just replaced the first of the
\* farthest tracks
C24_Witness ==
  /\ outcome = "replaced_farthest"
  /\ Container[0].timestamp = now
  /\ Container[1].addr # 0
  /\ Container[0].alarm_level = Container[1].alarm_level
  /\ AdjDistance(ThisAircraft, Container[0]) < AdjDistance(ThisAircraft, Container[1])

\* ------------------------------------------------ the distance alarm alone
\* Alarm_Distance is applied to targets at distances and altitude differences
\* on both sides of every limit, by an own aircraft with and without a
\* previous GNSS sample, climbing or level
AlarmDistances == {0, 199, 200, 399, 400, 699, 700, 999, 1000, 2000, 2001}

AlarmAltDiffs == {-601, -600, -360, -359, -100, 0, 59, 60, 100, 359, 360, 600, 601}

AlarmSpeeds == {0, 600}

Score(distances, alt_diffs, speeds) ==
  \E d \in distances, a \in alt_diffs, v \in speeds, w \in speeds, t \in {0, 1} :
    \E ta \in {[ThisAircraft EXCEPT !.vs = w, !.prevtime_ms = t]},
       fo \in {[EmptyFO EXCEPT !.addr = 2, !.distance = d, !.alt_diff = a, !.vs = v]} :
      /\ air' = [this_aircraft |-> ta, fop |-> fo,
                 adj |-> Adj_alt_diff(ta, fo), level |-> Alarm_Distance(ta, fo)]
      /\ outcome' = "scored"
      /\ UNCHANGED <<now, ticks, ThisAircraft, settings, Container, UpdateTrafficTimeMarker,
                     notified, hist, scen, sentences>>

InitAlarm == Boot(0)

NextAlarm == Score(AlarmDistances, AlarmAltDiffs, AlarmSpeeds)

SpecAlarm == InitAlarm /\ [][NextAlarm]_vars

\* the level by the limits and the zones, for the distance d, the altitude
\* difference a and the adjusted altitude difference adj
ZoneLevel(d, a, adj) ==
  IF d > 2 * ALARM_ZONE_CLOSE \/ Abs(a) > 2 * VERTICAL_SEPARATION
     \/ Abs(adj) >= VERTICAL_SEPARATION
  THEN ALARM_LEVEL_NONE
  ELSE LET eff_dist == d + VERTICAL_SLOPE * Abs(adj)
       IN  CASE eff_dist < ALARM_ZONE_URGENT    -> ALARM_LEVEL_URGENT
             [] eff_dist \in ALARM_ZONE_URGENT .. (ALARM_ZONE_IMPORTANT - 1)
                                                -> ALARM_LEVEL_IMPORTANT
             [] eff_dist \in ALARM_ZONE_IMPORTANT .. (ALARM_ZONE_LOW - 1)
                                                -> ALARM_LEVEL_LOW
             [] eff_dist \in ALARM_ZONE_LOW .. (ALARM_ZONE_CLOSE - 1)
                                                -> ALARM_LEVEL_CLOSE
             [] OTHER                           -> ALARM_LEVEL_NONE

\* C25 (as stated): for every own-aircraft state and every target,
\* Alarm_Distance returns the level given by the limits and the zones
C25_ZonesAsStated ==
  outcome = "scored" =>
    air.level = ZoneLevel(air.fop.distance, air.fop.alt_diff, air.adj)

\* C25 (amended): Alarm_Distance returns NONE while the own aircraft has no
\* previous GNSS sample (prevtime_ms = 0), and otherwise the level given by the
\* limits and the zones
C25_Zones ==
  outcome = "scored" =>
    air.level = IF air.this_aircraft.prevtime_ms = 0 THEN ALARM_LEVEL_NONE
                ELSE ZoneLevel(air.fop.distance, air.fop.alt_diff, air.adj)

\* a target right on the URGENT limit, lifted into the zone below by its
\* adjusted altitude difference, was scored by an own aircraft with a sample
C25_Witness ==
  /\ outcome = "scored"
  /\ air.this_aircraft.prevtime_ms # 0
  /\ air.fop.distance = ALARM_ZONE_URGENT - 1
  /\ air.adj > 0
  /\ air.level = ALARM_LEVEL_IMPORTANT

\* ------------------------------------ claims: implausible vertical speeds
\* the relative vertical speed of the last adjustment, in feet per minute
RelativeVs == air.fop.vs - air.this_aircraft.vs

\* the adjustment of the same altitude difference for the relative vertical
\* speed vsr, with the own aircraft level
AdjustedFor(vsr) ==
  Adj_alt_diff([air.this_aircraft EXCEPT !.vs = 0], [air.fop EXCEPT !.vs = vsr])

\* C27 (as stated): a relative vertical speed beyond +/-1000 fpm is clamped:
\* the altitude difference is adjusted as for +/-1000 fpm
C27_ClampedAsStated ==
  (outcome = "adjusted" /\ Abs(RelativeVs) > 1000) =>
    air.adj = AdjustedFor(IF RelativeVs > 0 THEN 1000 ELSE -1000)

\* C27 (amended): a relative vertical speed beyond +/-1000 fpm is discarded:
\* the altitude difference is adjusted as for 0 fpm, by the slack alone
C27_Discarded ==
  (outcome = "adjusted" /\ Abs(RelativeVs) > 1000) =>
    air.adj = AdjustedFor(0)

\* a target 312 m higher and sinking at more than 1000 fpm relative to the own
\* aircraft keeps its 312 m less the slack
C27_Witness ==
  /\ outcome = "adjusted"
  /\ RelativeVs < -1000
  /\ air.fop.alt_diff = 312
  /\ air.adj = 312 - VERTICAL_SLACK

\* -------------------------------------------------- the vector alarm alone
\* Alarm_Vector is applied to targets on the meridian of the own aircraft: the
\* own aircraft flies north or stands still, the target flies north or south;
\* the bearing stored with the target is on both sides of every angle limit
VectorDistances == {400, 900, 1100, 1500, 2000, 2001}

VectorAltDiffs == {0, 400, 601}

VectorBearings == {0, 9, 10, 11, 19, 20, 21, 29, 30, 31}

VectorSpeeds == {0, 100}

\* milliseconds between the target's last two samples
VectorGaps == {3000, 3001}

\* the own aircraft and the target that Alarm_Vector is applied to
VectorInputs ==
  { [this_aircraft |-> [speed |-> w, course |-> 0, prevtime_ms |-> t, vs |-> 0,
                        turnrate |-> IF turning = 1 THEN 4 ELSE 0,
                        circling |-> (turning = 3)],
     fop |-> [EmptyFO EXCEPT !.addr = 2, !.distance = d, !.alt_diff = a, !.bearing = b,
                             !.speed = v, !.course = c,
                             !.turnrate = IF turning = 2 THEN -4 ELSE 0,
                             !.gnsstime_ms = 5000 + gap, !.prevtime_ms = 5000],
     adj |-> 0, level |-> ALARM_LEVEL_NONE, by_distance |-> ALARM_LEVEL_NONE] :
      d \in VectorDistances, a \in VectorAltDiffs, b \in VectorBearings,
      v \in VectorSpeeds, w \in VectorSpeeds, c \in {0, 180},
      gap \in VectorGaps, t \in {0, 1}, turning \in {0, 1, 2, 3} }

ScoreVector ==
  /\ outcome = "boot"
  /\ air' = [air EXCEPT !.adj = Adj_alt_diff(air.this_aircraft, air.fop),
                        !.level = Alarm_Vector(air.this_aircraft, air.fop),
                        !.by_distance = Alarm_Distance(air.this_aircraft, air.fop)]
  /\ outcome' = "scored"
  /\ UNCHANGED <<now, ticks, ThisAircraft, settings, Container, UpdateTrafficTimeMarker,
                 notified, hist, scen, sentences>>

InitVector ==
  /\ SetupState(Settings(0, ADDR_TYPE_FLARM, 0, TRUE), 1)
  /\ air \in VectorInputs

NextVector == ScoreVector

SpecVector == InitVector /\ [][NextVector]_vars

\* the gates of the last scoring: a previous own sample, a target sample at
\* most 3 s after the one before, distance and altitude difference within
\* twice the close limits, closing time within ALARM_TIME_CLOSE
GatesPass ==
  /\ outcome = "scored"
  /\ air.this_aircraft.prevtime_ms # 0
  /\ air.fop.gnsstime_ms - air.fop.prevtime_ms <= 3000
  /\ air.fop.distance <= 2 * ALARM_ZONE_CLOSE
  /\ Abs(air.fop.alt_diff) <= 2 * VERTICAL_SEPARATION
  /\ air.fop.distance * 1000
       <= ALARM_TIME_CLOSE * 514 * (air.fop.speed + air.this_aircraft.speed)

\* one of the two aircraft turns faster than 3 degrees per second
Turning == Abs(air.this_aircraft.turnrate) > 3 \/ Abs(air.fop.turnrate) > 3

\* the relative speed along the meridian, in knots, and its direction
RelKnots ==
  Abs(air.this_aircraft.speed * cos_approx_cardinal(air.this_aircraft.course)
        - air.fop.speed * cos_approx_cardinal(air.fop.course))

RelDirection ==
  atan2_approx_north(air.this_aircraft.speed * cos_approx_cardinal(air.this_aircraft.course)
                       - air.fop.speed * cos_approx_cardinal(air.fop.course))

RelAngle == Abs(RelDirection - air.fop.bearing)

\* the time band of t = (distance + slope * |adj_alt_diff|) / |V_rel|:
\* 0 for t < URGENT, 1 for < IMPORTANT, 2 for < LOW, 3 for < CLOSE, else 4
TimeBand ==
  LET m == (air.fop.distance + VERTICAL_SLOPE * Abs(air.adj)) * 1000
      k == 514 * RelKnots
  IN  IF m < ALARM_TIME_URGENT * k THEN 0
      ELSE IF m < ALARM_TIME_IMPORTANT * k THEN 1
      ELSE IF m < ALARM_TIME_LOW * k THEN 2
      ELSE IF m < ALARM_TIME_CLOSE * k THEN 3
      ELSE 4

\* the level of the table for the angle band (0 the narrowest, 3 beyond the
\* widest) and the time band: each wider angle band lowers the level by one
TableLevel(angle_band, time_band) ==
  IF angle_band > 2 \/ angle_band + time_band > 3 THEN ALARM_LEVEL_NONE
  ELSE ALARM_LEVEL_URGENT - (angle_band + time_band)

\* the angle bands with their upper limits included, and excluded
BandInclusive ==
  IF RelAngle <= ALARM_VECTOR_ANGLE THEN 0
  ELSE IF RelAngle <= 2 * ALARM_VECTOR_ANGLE THEN 1
  ELSE IF RelAngle <= 3 * ALARM_VECTOR_ANGLE THEN 2 ELSE 3

BandExclusive ==
  IF RelAngle < ALARM_VECTOR_ANGLE THEN 0
  ELSE IF RelAngle < 2 * ALARM_VECTOR_ANGLE THEN 1
  ELSE IF RelAngle < 3 * ALARM_VECTOR_ANGLE THEN 2 ELSE 3

\* C26 (as stated): when the gates pass, Alarm_Vector returns the Distance
\* result if either aircraft turns faster than 3 deg/s; otherwise NONE for a
\* relative speed below ALARM_VECTOR_SPEED, and else the level of the table
\* with the angle bands D <= a, a < D <= 2a, 2a < D <= 3a
C26_VectorTableAsStated ==
  GatesPass =>
    air.level = IF Turning THEN air.by_distance
                ELSE IF ~ KnotsAbove(RelKnots, ALARM_VECTOR_SPEED) THEN ALARM_LEVEL_NONE
                ELSE TableLevel(BandInclusive, TimeBand)

\* C26 (amended): when the gates pass, Alarm_Vector returns the Distance result
\* if the circling flag is set or either aircraft turns faster than 3 deg/s;
\* otherwise NONE if |adj_alt_diff| >= VERTICAL_SEPARATION or the relative
\* speed is not above ALARM_VECTOR_SPEED, and else the level of the table with
\* the angle bands D < a, a <= D < 2a, 2a <= D < 3a
C26_VectorTable ==
  GatesPass =>
    air.level = IF air.this_aircraft.circling \/ Turning THEN air.by_distance
                ELSE IF ~ (Abs(air.adj) < VERTICAL_SEPARATION) THEN ALARM_LEVEL_NONE
                ELSE IF ~ KnotsAbove(RelKnots, ALARM_VECTOR_SPEED) THEN ALARM_LEVEL_NONE
                ELSE TableLevel(BandExclusive, TimeBand)

\* a target met head-on in the second time band and the second angle band
\* was scored CLOSE
C26_Witness ==
  /\ GatesPass
  /\ ~ Turning /\ ~ air.this_aircraft.circling
  /\ TimeBand = 2
  /\ RelAngle = ALARM_VECTOR_ANGLE
  /\ air.level = ALARM_LEVEL_CLOSE

\* ------------------------------------------- claims: stored derived fields
\* C28: every track that Traffic_Update has evaluated holds an adj_alt_diff
\* that is the adjustment of its alt_diff, and adj_distance = distance +
\* VERTICAL_SLOPE * |adj_alt_diff|, the values that NMEA_Export reads
C28_DerivedFieldsStored ==
  \A i \in Slots :
    Container[i].addr # 0 =>
      /\ Container[i].adj_alt_diff = Adj_alt_diff(ThisAircraft, Container[i])
      /\ Container[i].adj_distance =
           Container[i].distance + VERTICAL_SLOPE * Abs(Container[i].adj_alt_diff)

\* ---------------------------------------------------------------------------
\* The stealth rule of NMEA_Export, read off the sentences of one export
\* ---------------------------------------------------------------------------

\* x with its low eight bits cleared, as the two's complement x & ~0xFF
ClearLow8(x) == x - (x % 256)

\* slot i is hidden by the stealth rule: alarm level at most CLOSE and beyond
\* the stealth distance or the stealth height
Hidden(i) ==
  /\ Container[i].alarm_level <= ALARM_LEVEL_CLOSE
  /\ \/ Container[i].distance > STEALTH_DISTANCE
     \/ Abs(Container[i].alt_diff) > STEALTH_VERTICAL

IncludePackets ==
  PacketsFrom({2}, {[latitude |-> 600, altitude |-> 0], [latitude |-> 1500, altitude |-> 0]})
  \cup PacketsFrom({3}, {[latitude |-> 12000, altitude |-> 0]})
  \cup { [p EXCEPT !.stealth = TRUE] :
           p \in { q \in PacketsFrom({3}, {[latitude |-> 600, altitude |-> 400],
                                          [latitude |-> 12000, altitude |-> 0]}) :
                    q.raw = "ok" } }

InitInclude ==
  \E follow_id \in {0, 3} : Setup(Settings(0, ADDR_TYPE_FLARM, follow_id, TRUE), 1)

NextInclude ==
  \/ Tick({EXPORT_EXPIRATION_TIME + 1}, MaxJumps) /\ UNCHANGED <<hist, scen, sentences, air>>
  \/ GNSS_loop({0}) /\ UNCHANGED <<hist, scen, sentences, air>>
  \/ Receive(IncludePackets, {5000}) /\ UNCHANGED <<hist, scen, sentences, air>>
  \/ NMEA_Export /\ UNCHANGED <<hist, scen, air>>

SpecInclude == InitInclude /\ [][NextInclude]_vars

\* slot i is in the sorted list of the export: a $PFLAA sentence was sent for it
\* (the table is smaller than MAX_NMEA_OBJECTS, so no listed track is left out)
Counted(i) == SentFor(i) # {}

\* slot i passes the stated inclusion test
Eligible(i) ==
  /\ ~ ((Container[i].stealth \/ ThisAircraft.stealth) /\ Hidden(i))
  /\ \/ Container[i].alarm_level > ALARM_LEVEL_NONE
     \/ /\ Container[i].distance < ALARM_ZONE_NONE
        /\ Abs(Container[i].adj_alt_diff) < VERTICAL_VISIBILITY_RANGE
     \/ Container[i].addr = settings.follow_id

\* the export reports as many objects as it counted
TotalMatches ==
  sentences.pflau[1].total_objects = Cardinality({i \in Slots : Counted(i)})

\* C30 as stated: in an export with fix, a non-empty slot is counted if and
\* only if it is not stealth-suppressed and has alarm_level > NONE, or is
\* within ALARM_ZONE_NONE and VERTICAL_VISIBILITY_RANGE, or is the followed one
C30_CountedAsStated ==
  (outcome = "export" /\ isValidFix) =>
    \A i \in Slots : Container[i].addr # 0 => (Counted(i) <=> Eligible(i))

\* C30: in an export with fix, a non-empty slot heard at most
\* EXPORT_EXPIRATION_TIME ago is counted if and only if it is not
\* stealth-suppressed and has alarm_level > NONE, or is within ALARM_ZONE_NONE
\* and VERTICAL_VISIBILITY_RANGE, or is the followed one; an older or empty
\* slot is not counted, and total_objects is the number of counted slots
C30_CountedWhileFresh ==
  (outcome = "export" /\ isValidFix) =>
    /\ \A i \in Slots :
         IF Container[i].addr # 0 /\ now - Container[i].timestamp <= EXPORT_EXPIRATION_TIME
         THEN Counted(i) <=> Eligible(i)
         ELSE ~ Counted(i)
    /\ TotalMatches

\* an export that counts the followed track, of alarm level NONE and beyond
\* ALARM_ZONE_NONE, and leaves out a track of alarm level LOW heard too long ago
C30_Witness ==
  /\ outcome = "export"
  /\ isValidFix
  /\ \E i, j \in Slots :
        /\ Container[i].addr = settings.follow_id
        /\ Container[i].alarm_level = ALARM_LEVEL_NONE
        /\ Container[i].distance >= ALARM_ZONE_NONE
        /\ Counted(i)
        /\ Container[j].alarm_level = ALARM_LEVEL_LOW
        /\ now - Container[j].timestamp > EXPORT_EXPIRATION_TIME
        /\ ~ Counted(j)

\* ---------------------------------------------------------------------------
\* NMEA_Export in a build whose table is larger than the number of $PFLAA
\* sentences: one export of a table of fresh tracks, whose next fields were
\* left behind by earlier exports
\* ---------------------------------------------------------------------------

ListSize == 3
ListCap == 2

ListSlots == 0 .. (ListSize - 1)

\* what slot i can hold: nothing, a near track without alarm, a track of alarm
\* level LOW, or a stealth track of alarm level URGENT; its address is i + 2
ListTracks(i) ==
  { EmptyFO,
    [EmptyFO EXCEPT !.addr = i + 2, !.timestamp = StartTime, !.latitude = 600,
                    !.distance = 600, !.course = 180, !.speed = 80],
    [EmptyFO EXCEPT !.addr = i + 2, !.timestamp = StartTime, !.latitude = 600,
                    !.distance = 600, !.course = 180, !.speed = 80,
                    !.alarm_level = ALARM_LEVEL_LOW],
    [EmptyFO EXCEPT !.addr = i + 2, !.timestamp = StartTime, !.latitude = 100,
                    !.distance = 100, !.course = 180, !.speed = 80,
                    !.alarm_level = ALARM_LEVEL_URGENT, !.stealth = TRUE] }

ListTables ==
  [ListSlots -> UNION { { [t EXCEPT !.next = n] : n \in 0 .. ListSize } : t \in
                          UNION { ListTracks(i) : i \in ListSlots } }]

InitList ==
  /\ now = StartTime
  /\ ticks = 0
  /\ ThisAircraft = [addr |-> 1, timestamp |-> StartTime, latitude |-> 0,
                     altitude |-> 0, geoid_separation |-> 0, vs |-> 0,
                     prevtime_ms |-> 1, stealth |-> FALSE,
                     speed |-> 0, course |-> 0, turnrate |-> 0, circling |-> FALSE]
  /\ \E follow_id \in {0, 2} : settings = Settings(0, ADDR_TYPE_FLARM, follow_id, TRUE)
  /\ Container \in { T \in ListTables : \A i \in ListSlots : T[i].addr \in {0, i + 2} }
  /\ UpdateTrafficTimeMarker = 0
  /\ notified = ALARM_LEVEL_NONE
  /\ outcome = "boot"
  /\ hist = NoHistory
  /\ scen = [step |-> 0, sounded |-> {}, phase |-> "move"]
  /\ sentences = NoSentences
  /\ air = NoPacket

\* one NMEA_Export call; air keeps the head, the count and the HP it worked out
ListExport ==
  /\ outcome = "boot"
  /\ \E r \in {ExportResult(ListSize, ListCap)} :
       /\ Container' = r.C
       /\ sentences' = r.S
       /\ air' = [head |-> r.head, total_objects |-> r.total_objects, HP |-> r.HP]
  /\ outcome' = "export"
  /\ notified' = ALARM_LEVEL_NONE
  /\ UNCHANGED <<now, ticks, ThisAircraft, settings, UpdateTrafficTimeMarker, hist, scen>>

NextList == ListExport

SpecList == InitList /\ [][NextList]_vars

\* the slot of the HP target the export worked out
HPSlot ==
  IF air.HP.stealth THEN air.HP.addr - StealthId(0) ELSE air.HP.addr - 2

\* C31: an export that worked out an HP target names it in $PFLAU, and sends a
\* $PFLAA for it if fewer than the maximal number of tracks are selected and no
\* $PFLAA for it otherwise, a stealth HP target included
C31_HPSkippedWhenFull ==
  (outcome = "export" /\ air.HP.addr # 0) =>
    /\ sentences.pflau[1].addr = air.HP.addr
    /\ IF air.total_objects < ListCap
       THEN SentFor(HPSlot) # {}
       ELSE SentFor(HPSlot) = {}

\* ---------------------------------------------------------------------------
\* The $PSRFH heartbeat: exports are counted while the table fills and the fix
\* comes and goes, with the NMEA output on or off
\* ---------------------------------------------------------------------------

MaxBeats == 21

BeatPackets == PacketsFrom({2}, {[latitude |-> 600, altitude |-> 0]})

InitBeat ==
  /\ \E nmea_l \in BOOLEAN : SetupState(Settings(0, ADDR_TYPE_FLARM, 0, nmea_l), 1)
  /\ air = [exports |-> 0]

\* one NMEA_Export call; air counts the calls that got as far as $PFLAU
CountedExport ==
  /\ air.exports < MaxBeats
  /\ NMEA_Export
  /\ air' = [exports |-> IF settings.nmea_l THEN air.exports + 1 ELSE air.exports]
  /\ UNCHANGED <<hist, scen>>

NextBeat ==
  \/ GNSS_loop({0}) /\ UNCHANGED <<hist, scen, sentences, air>>
  \/ Receive(BeatPackets, {5000}) /\ UNCHANGED <<hist, scen, sentences, air>>
  \/ CountedExport

SpecBeat == InitBeat /\ [][NextBeat]_vars

\* C32: a call of NMEA_Export that emits $PFLAU emits $PSRFH if and only if it
\* is the 10th, 20th, ... such call since start; a call that emits no $PFLAU
\* emits no $PSRFH
C32_HeartbeatEveryTenth ==
  /\ outcome = "export" => /\ Len(sentences.pflau) = 1
                           /\ sentences.psrfh <=> (air.exports % 10 = 0)
  /\ outcome = "silent" => /\ sentences.pflau = << >>
                           /\ ~ sentences.psrfh

\* the 20th export has just emitted the second heartbeat
C32_Witness ==
  /\ outcome = "export"
  /\ air.exports = 20
  /\ sentences.psrfh

\* ---------------------------------------------------------------------------
\* The altitude of a packet: one aircraft encodes its MSL altitude with its
\* geoid separation, a receiver with the same geoid separation decodes it
\* ---------------------------------------------------------------------------

MslAltitudes ==
  { -1050, -1000, -999, -900, -500, -151, -150, -101, -100, -51, -50, -2, -1, 0, 1, 2,
    50, 51, 100, 101, 500, 1000, 2000, 4095, 4096, 4097, 6000, 7900, 7949, 7950, 7951,
    8000, 8001, 8050, 8091, 8100, 8141, 8191, 8192, 8291 }

GeoidSeparations == {-100, 0, 50}

InitAltitude ==
  /\ SetupState(Settings(0, ADDR_TYPE_FLARM, 0, TRUE), 1)
  /\ air \in [altitude : MslAltitudes, geoid_separation : GeoidSeparations]

\* legacy_encode at the sender, legacy_decode at the receiver
AltitudeRoundTrip ==
  /\ outcome = "boot"
  /\ \E e \in {legacy_encode([Sender(2, StartTime, 600) EXCEPT
                                !.altitude = air.altitude,
                                !.geoid_separation = air.geoid_separation],
                             ADDR_TYPE_FLARM)} :
       \E r \in {legacy_decode(e.pkt,
                               [ThisAircraft EXCEPT
                                  !.geoid_separation = air.geoid_separation],
                               EmptyFO)} :
         air' = [altitude |-> air.altitude, geoid_separation |-> air.geoid_separation,
                 alt |-> Unpack(e.plain).alt, rval |-> r.rval, decoded |-> r.fop.altitude]
  /\ outcome' = "decoded"
  /\ UNCHANGED <<now, ticks, ThisAircraft, settings, Container, UpdateTrafficTimeMarker,
                 notified, hist, scen, sentences>>

NextAltitude == AltitudeRoundTrip

SpecAltitude == InitAltitude /\ [][NextAltitude]_vars

\* C33: for an MSL altitude a and a geoid separation g with a + g between
\* -1000 and 8000 m, the decoded altitude is within 1 m of a and the altitude
\* field holds a + g unwrapped
C33_AltitudeRoundTrip ==
  (outcome = "decoded"
     /\ air.altitude + air.geoid_separation \in -1000 .. 8000) =>
    /\ air.rval
    /\ Abs(air.decoded - air.altitude) <= 1
    /\ air.alt = air.altitude + air.geoid_separation

\* ---------------------------------------------------------------------------
\* The vector scorer on received packets: two other aircraft fly south at
\* 80 knots towards the standing own aircraft and are heard again and again
\* ---------------------------------------------------------------------------

HeardPackets ==
  PacketsFrom({2}, {[latitude |-> 100, altitude |-> 0], [latitude |-> 600, altitude |-> 0]})
    \cup PacketsFrom({3}, {[latitude |-> 100, altitude |-> 0]})

HeardMillis == {5000, 6000}

\* settings->alarm selects Alarm_Vector
InitHeard ==
  Setup([Settings(0, ADDR_TYPE_FLARM, 0, TRUE) EXCEPT !.alarm = TRAFFIC_ALARM_VECTOR], 1)

NextHeard ==
  \/ Tick({1}, MaxTicks) /\ UNCHANGED <<hist, scen, sentences, air>>
  \/ GNSS_loop({0}) /\ UNCHANGED <<hist, scen, sentences, air>>
  \/ Receive(HeardPackets, HeardMillis) /\ UNCHANGED <<hist, scen, sentences, air>>
  \/ Traffic_loop /\ UNCHANGED <<hist, scen, sentences, air>>

SpecHeard == InitHeard /\ [][NextHeard]_vars

\* the slots that the packet of this step has refreshed with a later sample
Reheard ==
  {i \in Slots : /\ outcome' = "refreshed"
                 /\ Container'[i].prevtime_ms = Container[i].gnsstime_ms
                 /\ Container'[i].gnsstime_ms > Container'[i].prevtime_ms}

\* C34: the alarm level that ParseData stores on a refresh is the selected
\* scorer's result for the slot with its history, so under the vector scorer a
\* target heard twice within 3 s passes the sample-age gate
C34_RefreshScoredWithHistory ==
  [][\A i \in Reheard :
       Container'[i].alarm_level
         = Alarm_Level(settings'.alarm, ThisAircraft', Container'[i])]_vars

\* ---------------------------------------------------------------------------
\* Alerts while the sweeps keep running.  One aircraft (address 2) holds its
\* place 600 m north, two others (3 and 4) are heard near and far.  The code
\* reads the clock only in differences to stored time stamps, so a step of
\* time is taken by moving every stored time stamp back, as far as the
\* difference matters, instead of moving the clock forward: the states repeat
\* and a behaviour can go on for ever.
\* ---------------------------------------------------------------------------

AlertStep == 16

AlertPackets ==
  PacketsFrom({2}, {[latitude |-> 600, altitude |-> 0]})
    \cup PacketsFrom({3, 4}, {[latitude |-> 100, altitude |-> 0],
                              [latitude |-> 1500, altitude |-> 0]})

\* the time stamp t after dt more seconds, kept at least at floor
Earlier(t, dt, floor) == IF t - dt < floor THEN floor ELSE t - dt

\* the table is to be swept by the next call of Traffic_loop
SweepDue == isValidFix /\ isTimeToUpdateTraffic

\* AlertStep seconds pass; the main loop has called Traffic_loop before
Elapse ==
  /\ isValidFix
  /\ ~ isTimeToUpdateTraffic
  /\ Container' = [i \in Slots |->
                     IF Container[i].addr = 0 THEN Container[i]
                     ELSE [Container[i] EXCEPT
                             !.timestamp = Earlier(@, AlertStep,
                                                   now - (ENTRY_EXPIRATION_TIME + 1))]]
  /\ UpdateTrafficTimeMarker' = Earlier(UpdateTrafficTimeMarker, AlertStep,
                                        now - TRAFFIC_UPDATE_INTERVAL)
  /\ notified' = ALARM_LEVEL_NONE
  /\ outcome' = "tick"
  /\ UNCHANGED <<now, ticks, ThisAircraft, settings>>

InitAlert == Boot(0)

NextAlert ==
  \/ Elapse /\ UNCHANGED <<hist, scen, sentences, air>>
  \/ GNSS_loop({0}) /\ UNCHANGED <<hist, scen, sentences, air>>
  \/ Receive(AlertPackets, {5000}) /\ UNCHANGED <<hist, scen, sentences, air>>
  \/ Traffic_loop /\ UNCHANGED <<hist, scen, sentences, air>>

\* the main loop runs for ever: time passes, and Traffic_loop sweeps whenever
\* the update interval is over.  The sweep is enabled exactly when SweepDue
\* holds and it ends SweepDue, so its weak fairness is []<>~SweepDue.
SpecAlert ==
  /\ InitAlert
  /\ [][NextAlert]_vars
  /\ WF_vars(Elapse /\ UNCHANGED <<hist, scen, sentences, air>>)
  /\ []<>(~ SweepDue)

\* slot i holds the aircraft of address 2, unexpired, with an alarm above
\* CLOSE and above its alert_level
Waiting(i) ==
  /\ Container[i].addr = 2
  /\ ThisAircraft.timestamp - Container[i].timestamp <= ENTRY_EXPIRATION_TIME
  /\ Container[i].alarm_level > ALARM_LEVEL_CLOSE
  /\ Container[i].alarm_level > Container[i].alert_level

\* C35 (as stated): a tracked aircraft that stays unexpired with alarm_level
\* above CLOSE and above its alert_level is eventually sounded, whatever the
\* other aircraft do: it does not wait for ever
C35_DueIsEventuallySounded ==
  \A i \in Slots : Waiting(i) ~> ~ Waiting(i)

\* the slots whose alert_level the sweep of this step has raised
Raised == {i \in Slots \ Cleared : Container'[i].alert_level > Threshold(i)}

\* slot m goes before slot i in the choice of the sweep
Before(m, i) ==
  \/ Container'[m].alarm_level > Container'[i].alarm_level
  \/ Container'[m].alarm_level = Container'[i].alarm_level /\ m < i

\* C35 (amended): each sweep fires at most one sound and raises the
\* alert_level of at most one slot; a slot that is due is the one sounded
\* unless another due slot has a higher alarm level, or the same level and a
\* lower index, and then that one is sounded and the slot stays due
C35_SoundedUnlessPreempted ==
  [][Sweeping =>
       /\ Cardinality(Raised) <= 1
       /\ \A i \in Due :
            \/ i \in Raised /\ \A m \in Due \ {i} : Before(i, m)
            \/ /\ i \notin Raised
               /\ \E m \in Raised \cap Due : Before(m, i)
               /\ Container'[i].alarm_level > Container'[i].alert_level
    ]_vars

\* a sweep has sounded an URGENT alarm while the aircraft of address 2 is
\* still waiting with its LOW alarm
C35_Witness ==
  /\ outcome = "sweep"
  /\ notified = ALARM_LEVEL_URGENT
  /\ \E i \in Slots : Waiting(i) /\ Container[i].alarm_level = ALARM_LEVEL_LOW

\* C36: no non-empty slot of the tracking table holds the own aircraft's
\* current address, also after generate_random_id has replaced the own address
C36_OwnAddressNotTracked ==
  \A i \in Slots : Container[i].addr # 0 => Container[i].addr # ThisAircraft.addr

\* the slots of the sorted list in the order of the next links, at most n of
\* them, from slot k on
RECURSIVE Walk(_, _)
Walk(k, n) ==
  IF n = 0 \/ k >= ListSize THEN << >>
  ELSE <<k>> \o Walk(Container[k].next, n - 1)

\* the sorted list the last export has built
Listed == Walk(air.head, ListSize)

\* the slots that $PFLAA sentences were sent for
SentSlots == {sentences.pflaa[j].slot : j \in 1 .. Len(sentences.pflaa)}

\* C37: in a table larger than MAX_NMEA_OBJECTS the $PFLAA loop visits the
\* first min(total_objects, MAX_NMEA_OBJECTS) entries of the sorted list: each
\* of them has its sentence, unless it is the HP target left to $PFLAU
C37_FirstEntriesVisited ==
  outcome = "export" =>
    \A n \in 1 .. Len(Listed) :
      (n <= air.total_objects /\ n <= ListCap
         /\ (air.total_objects < ListCap \/ Container[Listed[n]].addr # air.HP.addr))
        => Listed[n] \in SentSlots

\* ---------------------------------------------------------------------------
\* The configuration sentences $PSRFC and $PSRFD.  Each one that carries the
\* right version writes its fields into the settings, stores them and
\* restarts; the restarted program runs on with the stored settings.
\* ---------------------------------------------------------------------------

NMEA_Destinations ==
  {"NMEA_OFF", "NMEA_UART", "NMEA_UDP", "NMEA_TCP", "NMEA_USB", "NMEA_BLUETOOTH"}

Wireless(d) == d \in {"NMEA_UDP", "NMEA_TCP", "NMEA_BLUETOOTH"}

Wired(d) == d \in {"NMEA_UART", "NMEA_USB"}

\* the value stored for the field NMEA2 of $PSRFD
AdjustedNMEA2(nmea1, given, prime_mk2) ==
  LET a == IF given = nmea1 THEN "NMEA_OFF" ELSE given
      b == IF prime_mk2 /\ Wired(nmea1) /\ Wired(a) THEN "NMEA_OFF" ELSE a
  IN  IF Wireless(nmea1) /\ Wireless(b) THEN "NMEA_OFF" ELSE b

\* the board is a Prime Mk2 or another model
InitConfig ==
  /\ SetupState(Settings(0, ADDR_TYPE_FLARM, 0, TRUE), 1)
  /\ air \in [prime_mk2 : BOOLEAN]

\* $PSRFC: a query, or a version that does not match, changes nothing
PSRFC ==
  /\ \E version_matches \in BOOLEAN, nmea_l \in BOOLEAN, nmea_out \in NMEA_Destinations :
       settings' = IF version_matches
                   THEN [settings EXCEPT !.nmea_l = nmea_l, !.nmea_out = nmea_out]
                   ELSE settings
  /\ outcome' = "psrfc"
  /\ UNCHANGED <<now, ticks, ThisAircraft, Container, UpdateTrafficTimeMarker,
                 notified, hist, scen, sentences, air>>

\* $PSRFD
PSRFD ==
  /\ \E version_matches \in BOOLEAN, follow_id \in {0, 2}, nmea2 \in NMEA_Destinations :
       settings' = IF version_matches
                   THEN [settings EXCEPT
                           !.follow_id = follow_id,
                           !.nmea_out2 = AdjustedNMEA2(settings.nmea_out, nmea2,
                                                       air.prime_mk2)]
                   ELSE settings
  /\ outcome' = "psrfd"
  /\ UNCHANGED <<now, ticks, ThisAircraft, Container, UpdateTrafficTimeMarker,
                 notified, hist, scen, sentences, air>>

NextConfig == PSRFC \/ PSRFD

SpecConfig == InitConfig /\ [][NextConfig]_vars

\* C38: after any sequence of $PSRFC and $PSRFD sentences the stored secondary
\* destination is not the same non-OFF destination as the primary one, and
\* the two are not both wireless
C38_DestinationsApart ==
  /\ settings.nmea_out2 # "NMEA_OFF" => settings.nmea_out2 # settings.nmea_out
  /\ ~ (Wireless(settings.nmea_out) /\ Wireless(settings.nmea_out2))

\* ---------------------------------------------------------------------------
\* Battery_loop.  Voltages are in hundredths of a volt.  The board gives the
\* cutoff voltage; every call samples the voltage and the conditions that
\* follow_ext_power_shutoff reads.
\* ---------------------------------------------------------------------------

MaxSamples == 7

BATTERY_THRESHOLD_INVALID == 200

Voltages == {0, 150, 300, 350, 395}

Uptimes == {60000, 3600000}

\* what a call reads besides the voltage: the setting power_external, the
\* board model, external power present, airborne, millis()
PowerStates ==
  [power_external : BOOLEAN, prime_mk2 : BOOLEAN, onExternalPower : BOOLEAN,
   airborne : BOOLEAN, millis : Uptimes]

follow_ext_power_shutoff(voltage, p) ==
  IF ~ p.power_external THEN FALSE
  ELSE IF ~ p.prime_mk2 THEN FALSE
  ELSE IF p.onExternalPower THEN FALSE
  ELSE IF p.airborne THEN FALSE
  ELSE IF voltage >= 390 THEN FALSE
  ELSE IF p.millis < 3600000 THEN FALSE
  ELSE TRUE

\* the sample counts towards the shutdown
BelowCutoff(voltage, cutoff, p) ==
  /\ voltage > BATTERY_THRESHOLD_INVALID
  /\ voltage < cutoff \/ follow_ext_power_shutoff(voltage, p)

\* mutant: the shutdown comes with the fourth sample of a run
BatteryLoopResult_Early(count, low) ==
  IF low
  THEN IF count > 2
       THEN [Battery_cutoff_count |-> count, shutdown |-> TRUE]
       ELSE [Battery_cutoff_count |-> count + 1, shutdown |-> FALSE]
  ELSE [Battery_cutoff_count |-> 0, shutdown |-> FALSE]

\* the counter after the sample, and whether shutdown was called
BatteryLoopResult(count, low) ==
  IF low
  THEN IF count > 3
       THEN [Battery_cutoff_count |-> count, shutdown |-> TRUE]
       ELSE [Battery_cutoff_count |-> count + 1, shutdown |-> FALSE]
  ELSE [Battery_cutoff_count |-> 0, shutdown |-> FALSE]

\* Battery_setup: the counter is 0; run counts the samples of the unbroken run
\* of low samples that ends with the last sample, samples all of them
InitBattery ==
  /\ SetupState(Settings(0, ADDR_TYPE_FLARM, 0, TRUE), 1)
  /\ \E cutoff \in {320, 330}, v \in Voltages :
       air = [cutoff |-> cutoff, Battery_cutoff_count |-> 0, Battery_voltage_cache |-> v,
              run |-> 0, samples |-> 0]

\* one call of Battery_loop; a call before isTimeToBattery does nothing
Battery_loop ==
  /\ air.samples < MaxSamples
  /\ \E due \in BOOLEAN, voltage \in Voltages, p \in PowerStates :
       IF ~ due
       THEN air' = air /\ outcome' = "idle"
       ELSE \E r \in {BatteryLoopResult(air.Battery_cutoff_count,
                                        BelowCutoff(voltage, air.cutoff, p))} :
              /\ air' = [air EXCEPT
                           !.Battery_cutoff_count = r.Battery_cutoff_count,
                           !.Battery_voltage_cache = voltage,
                           !.run = IF BelowCutoff(voltage, air.cutoff, p) THEN @ + 1 ELSE 0,
                           !.samples = @ + 1]
              /\ outcome' = IF r.shutdown THEN "shutdown" ELSE "sampled"
  /\ UNCHANGED <<now, ticks, ThisAircraft, settings, Container, UpdateTrafficTimeMarker,
                 notified, hist, scen, sentences>>

NextBattery == Battery_loop

SpecBattery == InitBattery /\ [][NextBattery]_vars

\* C39: shutdown is called only on the fifth or a later sample of an unbroken
\* run of samples that are valid and below cutoff (or meet the external power
\* condition); a sample outside that condition sets the counter to 0
C39_ShutdownAfterFiveLow ==
  /\ outcome = "shutdown" => air.run >= 5
  /\ (outcome \in {"sampled", "shutdown"} /\ air.run = 0) => air.Battery_cutoff_count = 0
  /\ (outcome \in {"sampled", "shutdown"} /\ air.run \in 1 .. 4) =>
       (air.Battery_cutoff_count = air.run /\ outcome = "sampled")

\* the fifth low sample in a row, after a run that a good sample had broken,
\* calls shutdown
C39_Witness ==
  /\ outcome = "shutdown"
  /\ air.run = 5
  /\ air.samples > 5

\* the slots the selection loop of the last export has put into the list
Selected == {i \in ListSlots : Reported(Container[i])}

\* the slots met on the first total_objects steps along the next links
Visited == Walk(air.head, air.total_objects)

\* C40: after the selection loop the next links lead from head through
\* exactly total_objects distinct slots, the selected ones and no others, and
\* the link of the last one is the terminator MAX_TRACKING_OBJECTS, whatever
\* next fields the slots held before the call
C40_ListIsSelection ==
  outcome = "export" =>
    /\ air.total_objects = Cardinality(Selected)
    /\ Len(Visited) = air.total_objects
    /\ {Visited[n] : n \in 1 .. Len(Visited)} = Selected
    /\ air.total_objects > 0 => Container[Visited[Len(Visited)]].next = ListSize

\* all three slots are selected and the list runs against the slot order
C40_Witness ==
  /\ outcome = "export"
  /\ air.total_objects = ListSize
  /\ Visited = <<2, 1, 0>>
  /\ Container[0].next = ListSize

====
